---------------------------- MODULE Spec2Model ----------------------------
(***************************************************************************)
(* A model of auto_fix_multilang.py: the multi-language repair framework.  *)
(*                                                                         *)
(* Texts (source code, snippets, module paths) are sequences of            *)
(* one-character strings, so that the string operations of the program     *)
(* (split, join, count, replace, startswith, the regular expressions) are  *)
(* computed as the program computes them.  Each part of the program has    *)
(* its own specification over its own variables; the variables of the      *)
(* other parts stay at their idle values.                                  *)
(*                                                                         *)
(*   SpecValidator             validate_fix_semantics, safe_apply_fix      *)
(*   SpecTopo / FairSpecTopo   topological_sort                            *)
(*   SpecApplier               apply_replacements                          *)
(*   SpecRules                 try_local_fix and the rule tables           *)
(*   SpecAutoFix               auto_fix                                    *)
(*   SpecMultifile             auto_fix_multifile                          *)
(***************************************************************************)
EXTENDS Integers, Sequences, FiniteSets, TLC

VARIABLES
    vLang,      \* safe_apply_fix: the argument lang
    vOrig,      \* safe_apply_fix: the argument original_code
    vFixed,     \* safe_apply_fix: the argument fixed_code
    vRes,       \* safe_apply_fix: what the call did and returned
    vpc,        \* "call" before the call, "done" after it
    graph,      \* topological_sort: the argument, node -> set of dependencies
    graphIn,    \* history: the graph as it was passed in
    visited,    \* topological_sort: the set `visited`
    result,     \* topological_sort: the list `result`
    tpc,        \* topological_sort: "loop" while in the while loop, then "done"
    aCode,      \* apply_replacements: the argument code
    aRepl,      \* apply_replacements: the argument replacements
    aOut,       \* apply_replacements: the text returned
    apc,        \* "call" before the call, "done" after it
    rLang,      \* try_local_fix: the argument lang
    rCode,      \* try_local_fix: the argument code
    rMsg,       \* try_local_fix: the argument error_msg
    rRes,       \* try_local_fix: the pair (code, fixed_any) returned
    rpc,        \* "call" before the call, "done" after it
    fLang,      \* auto_fix: lang
    fInput,     \* auto_fix: the bytes of input_file
    fCode,      \* auto_fix: code
    fpc,        \* auto_fix: where the control is
    iteration,  \* auto_fix: the turns of Phase 3 that did not leave the loop
    compile_iter, \* auto_fix: compile_iter of Phase 2
    fOk,        \* auto_fix: ok of the last compilation of Phase 2
    success,    \* auto_fix: success
    fOutput,    \* auto_fix: the bytes written to output_file
    fFirstClean, \* history: the first static check passed
    fRepaired,  \* history: a rule changed the text or the oracle was asked
    fPatch,     \* history: the last text change taken from the oracle
    fTurn,      \* history: what the last turn of a loop of auto_fix did
    mLang,      \* auto_fix_multifile: lang
    mAnalyze,   \* auto_fix_multifile: analyze_deps
    mGraph,     \* auto_fix_multifile: dep_graph
    mInput,     \* auto_fix_multifile: the bytes of each file of input_dir
    mOrder,     \* auto_fix_multifile: source_files
    mIdx,       \* auto_fix_multifile: the place in source_files
    mCode,      \* auto_fix_multifile: code
    mOrig,      \* auto_fix_multifile: original_code
    mIter,      \* auto_fix_multifile: the turns that did not leave the loop
    mOutput,    \* auto_fix_multifile: the bytes of each file of output_dir
    mChanged,   \* auto_fix_multifile: the files whose results say changed
    mRecheck,   \* auto_fix_multifile: files_to_recheck not yet checked
    mStale,     \* history: files not checked since a file they import changed
    mTurn,      \* history: what the last turn of the loop of a file did
    mpc,        \* auto_fix_multifile: where the control is
    sLang,      \* run_in_container: the argument lang
    sRetry,     \* run_in_container: the argument retry
    sRunning,   \* the container is running
    sAttempts,  \* history: the times the command was sent to the container
    sSetups,    \* history: the calls of setup_container
    sTimedOut,  \* history: a sending of the command timed out
    sRet,       \* run_in_container: the value returned
    spc,        \* run_in_container: where the control is
    oReplies,   \* the oracle: what llm(prompt) does at each call still to come
    oCode,      \* the loop that asks the oracle: code
    oCalls,     \* history: the calls of llm made
       \* history: some call gave a reply that try_parse_json accepted
    oRet,       \* call_llm_for_fix: the value returned
    oOut,       \* the loop that asks the oracle: code after the turn
    opc,        \* the loop that asks the oracle: where the control is
    hCode,      \* apply_fixits: the argument code
    hFixits,    \* apply_fixits: the argument fixits
    hRes,       \* apply_fixits: the pair (code, applied) returned
    hpc,        \* "call" before the call, "done" after it
    pLang,      \* the loop that asks the oracle: lang
    pCode,      \* the loop that asks the oracle: code
    pMsg,       \* the loop that asks the oracle: error_msg
    pPrompt,    \* call_llm_for_fix: prompt
    ppc,        \* "call" before the turn, "asked" or "skipped" after it
    kDisk,      \* the .py files of the project directory
    kCache,     \* _PROJECT_MODULES_CACHE
    kModules,   \* scan_project_modules: the table returned to the session
    kSessions,  \* history: the sessions started
    kpc,        \* where the process is: "start", "looked", "between"
    qFunc,      \* the project loop that runs: "auto_fix_project" or "auto_fix_with_stats"
    qLang,      \* the project loops: lang
    qFiles,     \* the project loops: file_contents
    qIter,      \* the project loops: the turns of the loop begun
    qTotal,     \* auto_fix_project: total_fixes
    qStats,     \* STATS: iterations, local_fixes, llm_calls, fixed_errors, fix_methods
    qpc,        \* "loop" in the loop, "save" after it
    yLang,      \* try_local_fix, layer by layer: lang
    yCode,      \* try_local_fix: the text it is called with
    yMsg,       \* try_local_fix: error_msg
    yCur,       \* try_local_fix: code
    yFixed,     \* try_local_fix: fixed_any
    yRet,       \* try_local_fix: what it returns
    ypc         \* the layer try_local_fix is at, "done" after it returned

valVars == <<vLang, vOrig, vFixed, vRes, vpc>>

topoVars == <<graph, graphIn, visited, result, tpc>>

applVars == <<aCode, aRepl, aOut, apc>>

ruleVars == <<rLang, rCode, rMsg, rRes, rpc>>

fixVars == <<fLang, fInput, fCode, fpc, iteration, compile_iter, fOk, success,
             fOutput, fFirstClean, fRepaired, fPatch, fTurn>>

multiVars == <<mLang, mAnalyze, mGraph, mInput, mOrder, mIdx, mCode, mOrig, mIter,
               mOutput, mChanged, mRecheck, mStale, mTurn, mpc>>

sandVars == <<sLang, sRetry, sRunning, sAttempts, sSetups, sTimedOut, sRet, spc>>

oracleVars == <<oReplies, oCode, oCalls, oRet, oOut, opc>>

fixitVars == <<hCode, hFixits, hRes, hpc>>

promptVars == <<pLang, pCode, pMsg, pPrompt, ppc>>

cacheVars == <<kDisk, kCache, kModules, kSessions, kpc>>

projVars == <<qFunc, qLang, qFiles, qIter, qTotal, qStats, qpc>>

layerVars == <<yLang, yCode, yMsg, yCur, yFixed, yRet, ypc>>

vars == <<valVars, topoVars, applVars, ruleVars, fixVars, multiVars, sandVars,
          oracleVars,
          fixitVars,
          promptVars,
          cacheVars,
          projVars,
          layerVars>>

(***************************************************************************)
(* Bounds of the model.                                                    *)
(***************************************************************************)
\* files of a project directory
MaxNodes == 3

\* characters of a text drawn from the bracket alphabet
MaxBrLen == 3

\* characters of a text of letters and newlines given to the validator
MaxLineTextLen == 3

\* lines of a text drawn from a set of source lines
MaxValLines == 2

\* lines of a text apply_replacements is run on
MaxApplLines == 2

\* candidates of a list of replacements
MaxRepl == 1

\* lines of a text the rule engine is run on
MaxRuleLines == 2

\* lines of a message of the toolchain
MaxDiagLines == 2

\* the line numbers a message of the toolchain names
MaxDiagLineNum == 2

\* files of a directory given to auto_fix_multifile
MaxFiles == 2

\* hints of a list given to apply_fixits
MaxFixits == 2

\* the greatest column a hint names
MaxFixCol == 4

\* sessions of one process
MaxSessions == 3

\* turns of a loop over a project
MaxTurns == 3

(***************************************************************************)
(* Characters and texts.                                                   *)
(***************************************************************************)
Lower == { "a", "b", "c", "d", "e", "f", "g", "h", "i", "j", "k", "l", "m",
           "n", "o", "p", "q", "r", "s", "t", "u", "v", "w", "x", "y", "z" }

Upper == { "A", "B", "C", "D", "E", "F", "G", "H", "I", "J", "K", "L", "M",
           "N", "O", "P", "Q", "R", "S", "T", "U", "V", "W", "X", "Y", "Z" }

Digit == { "0", "1", "2", "3", "4", "5", "6", "7", "8", "9" }

\* \w of the regular expressions
WordChar == Lower \cup Upper \cup Digit \cup { "_" }

\* [\w.] of the import patterns
PathChar == WordChar \cup { "." }

\* \s of the regular expressions, and what str.strip() removes
Space == { " ", "\t", "\n", "\r" }

NL == "\n"

Range(s) == { s[i] : i \in 1..Len(s) }

\* the text with the characters of a string
Text(str) == [i \in 1..Len(str) |-> SubSeq(str, i, i)]

\* the least element of a set of positive indexes, 0 for the empty set
FirstOf(S) == IF S = {} THEN 0 ELSE CHOOSE i \in S : \A j \in S : i <= j

SeqsUpTo(S, n) == UNION { [1..k -> S] : k \in 0..n }

\* x = value, then the statements Op that read x
With(value, Op(_)) == Op(value)

\* s.count(c) for a one-character c
str_count(s, c) == Cardinality({ i \in 1..Len(s) : s[i] = c })

\* s.startswith(p)
startswith(s, p) == Len(p) <= Len(s) /\ SubSeq(s, 1, Len(p)) = p

\* s.endswith(p)
endswith(s, p) ==
    Len(p) <= Len(s) /\ SubSeq(s, Len(s) - Len(p) + 1, Len(s)) = p

\* s.find(p): the index of the first occurrence of p in s, 0 when absent
\* (p is not empty where the program calls it)
str_find(s, p) ==
    FirstOf({ i \in 1..(Len(s) - Len(p) + 1) : SubSeq(s, i, i + Len(p) - 1) = p })

\* p in s
contains(s, p) == str_find(s, p) > 0

\* s.split(c) for a one-character c
RECURSIVE str_split(_, _)
str_split(s, c) ==
    With(FirstOf({ i \in 1..Len(s) : s[i] = c }), LAMBDA i :
      IF i = 0 THEN << s >>
      ELSE << SubSeq(s, 1, i - 1) >> \o str_split(SubSeq(s, i + 1, Len(s)), c))

\* c.join(parts) for a one-character c
RECURSIVE str_join(_, _)
str_join(parts, c) ==
    IF Len(parts) = 0 THEN << >>
    ELSE IF Len(parts) = 1 THEN parts[1]
    ELSE parts[1] \o << c >> \o str_join(Tail(parts), c)

\* s.replace(old, new): every occurrence, left to right, not overlapping
RECURSIVE str_replace(_, _, _)
str_replace(s, old, new) ==
    IF Len(s) < Len(old) \/ Len(old) = 0 THEN s
    ELSE IF SubSeq(s, 1, Len(old)) = old
         THEN new \o str_replace(SubSeq(s, Len(old) + 1, Len(s)), old, new)
         ELSE << s[1] >> \o str_replace(Tail(s), old, new)

\* s.replace(old, new, 1): the first occurrence only
str_replace1(s, old, new) ==
    With(str_find(s, old), LAMBDA i :
      IF i = 0 THEN s
      ELSE SubSeq(s, 1, i - 1) \o new \o SubSeq(s, i + Len(old), Len(s)))

\* the index after the longest run of characters of class C that starts at i
RunEnd(s, i, C) ==
    CHOOSE j \in i..(Len(s) + 1) :
        /\ \A k \in i..(j - 1) : s[k] \in C
        /\ (j = Len(s) + 1 \/ s[j] \notin C)

(***************************************************************************)
(* The regular expressions of the program.  A pattern is a sequence of     *)
(* elements: a literal, a class repeated (+ or * ), one character outside  *)
(* a class ([^...]), or the line start ^ of re.MULTILINE.  In every        *)
(* pattern modelled here a repeated class is followed by something outside *)
(* the class, so the greedy match is the only one and no backtracking is   *)
(* needed.                                                                 *)
(***************************************************************************)
Lit(s) == [k |-> "lit", s |-> s, c |-> {}]

Plus(C) == [k |-> "plus", s |-> << >>, c |-> C]

Star(C) == [k |-> "star", s |-> << >>, c |-> C]

NotIn(C) == [k |-> "notin", s |-> << >>, c |-> C]

Bol == [k |-> "bol", s |-> << >>, c |-> {}]

\* the index after element e matched at i, 0 when it does not match
ElemEnd(t, i, e) ==
    CASE e.k = "lit" ->
            IF i + Len(e.s) - 1 <= Len(t) /\ SubSeq(t, i, i + Len(e.s) - 1) = e.s
            THEN i + Len(e.s) ELSE 0
      [] e.k = "plus" -> IF i <= Len(t) /\ t[i] \in e.c THEN RunEnd(t, i, e.c) ELSE 0
      [] e.k = "star" -> RunEnd(t, i, e.c)
      [] e.k = "notin" -> IF i <= Len(t) /\ t[i] \notin e.c THEN i + 1 ELSE 0
      [] e.k = "bol" -> IF i = 1 \/ t[i - 1] = NL THEN i ELSE 0

\* the indexes after each element of pat matched at i; << >> when no match
RECURSIVE re_match_at(_, _, _, _)
re_match_at(t, i, pat, acc) ==
    IF Len(acc) = Len(pat) THEN acc
    ELSE With(ElemEnd(t, i, pat[Len(acc) + 1]), LAMBDA j :
           IF j = 0 THEN << >> ELSE re_match_at(t, j, pat, Append(acc, j)))

\* re.finditer(pat, t): the matches, left to right, not overlapping
RECURSIVE re_finditer_from(_, _, _)
\* the matches that start at index i or after it
re_finditer_from(t, i, pat) ==
    With(FirstOf({ j \in i..Len(t) : re_match_at(t, j, pat, << >>) # << >> }), LAMBDA j :
      IF j = 0 THEN << >>
      ELSE With(re_match_at(t, j, pat, << >>), LAMBDA m :
             << [s |-> j, e |-> m] >>
             \o re_finditer_from(t, IF m[Len(m)] > j THEN m[Len(m)] ELSE j + 1, pat)))

re_finditer(t, pat) == re_finditer_from(t, 1, pat)

\* what element k of the pattern matched in match m of text t
Group(t, m, k) == SubSeq(t, IF k = 1 THEN m.s ELSE m.e[k - 1], m.e[k] - 1)

\* len(re.findall(pat, t))
re_count(t, pat) == Len(re_finditer(t, pat))

(***************************************************************************)
(* validate_fix_semantics (src 3045-3118).                                 *)
(***************************************************************************)
Langs == { "python", "java", "c", "cpp" }

\* len(code.split('\n'))
line_count(code) == Len(str_split(code, NL))

\* set(re.findall(r'\b[a-zA-Z_][a-zA-Z0-9_]*\b', code)): the maximal runs of
\* word characters that do not start with a digit
identifiers(code) ==
    { SubSeq(code, i, RunEnd(code, i, WordChar) - 1) :
        i \in { i \in 1..Len(code) :
                  /\ code[i] \in WordChar \ Digit
                  /\ (i = 1 \/ code[i - 1] \notin WordChar) } }

\* the set `keywords`
keywords ==
    { Text("if"), Text("else"), Text("for"), Text("while"), Text("return"),
      Text("class"), Text("def"), Text("try"), Text("except"), Text("finally"),
      Text("import"), Text("from"), Text("as"), Text("in"), Text("not"),
      Text("and"), Text("or"), Text("True"), Text("False"), Text("None"),
      Text("public"), Text("private"), Text("static"), Text("void"), Text("int"),
      Text("string"), Text("float"), Text("double"), Text("bool"),
      Text("boolean"), Text("char"), Text("const"), Text("auto"),
      Text("include"), Text("using"), Text("namespace"), Text("std"),
      Text("new"), Text("delete"), Text("virtual"), Text("override") }

\* the ceiling on newly introduced identifiers: len(added_ids) > 5
MaxAddedIds == 5

\* count_brackets(code): family -> (open count, close count)
count_brackets(code) ==
    [ paren   |-> << str_count(code, "("), str_count(code, ")") >>,
      bracket |-> << str_count(code, "["), str_count(code, "]") >>,
      brace   |-> << str_count(code, "{"), str_count(code, "}") >> ]

BracketFamilies == { "paren", "bracket", "brace" }

\* a variant of brackets_broken that does not look at the braces
Mut_brackets_broken(original_code, fixed_code) ==
    \E b \in BracketFamilies \ { "brace" } :
        /\ count_brackets(fixed_code)[b][1] # count_brackets(fixed_code)[b][2]
        /\ count_brackets(original_code)[b][1] = count_brackets(original_code)[b][2]

\* the bracket check: some family is unbalanced after and was balanced before
brackets_broken(original_code, fixed_code) ==
    \E b \in BracketFamilies :
        /\ count_brackets(fixed_code)[b][1] # count_brackets(fixed_code)[b][2]
        /\ count_brackets(original_code)[b][1] = count_brackets(original_code)[b][2]

\* critical_patterns[lang]
critical_patterns(lang) ==
    CASE lang = "python" ->
            { << Lit(Text("def")), Plus(Space), Plus(WordChar) >>,
              << Lit(Text("class")), Plus(Space), Plus(WordChar) >>,
              << Lit(Text("import")), Plus(Space), Plus(WordChar) >> }
      [] lang = "java" ->
            { << Lit(Text("public")), Plus(Space), Lit(Text("class")) >>,
              << Lit(Text("public")), Plus(Space), Lit(Text("static")), Plus(Space),
                 Lit(Text("void")), Plus(Space), Lit(Text("main")) >> }
      [] lang = "c" ->
            { << Lit(Text("int")), Plus(Space), Lit(Text("main")) >>,
              << Lit(Text("#include")) >> }
      [] lang = "cpp" ->
            { << Lit(Text("int")), Plus(Space), Lit(Text("main")) >>,
              << Lit(Text("#include")) >>,
              << Lit(Text("class")), Plus(Space), Plus(WordChar) >> }
      [] OTHER -> {}

\* the critical-code check: some pattern occurs fewer times after the patch
critical_removed(original_code, fixed_code, lang) ==
    \E pat \in critical_patterns(lang) :
        re_count(fixed_code, pat) < re_count(original_code, pat)

\* extract_python_imports (src 3166-3185)
extract_python_imports(code) ==
    LET from_pat == << Lit(Text("from")), Plus(Space), Plus(PathChar), Plus(Space),
                       Lit(Text("import")) >>
        import_pat == << Bol, Lit(Text("import")), Plus(Space), Plus(PathChar) >>
        as_pat == << Lit(Text("import")), Plus(Space), Plus(PathChar), Plus(Space),
                     Lit(Text("as")) >>
        f == re_finditer(code, from_pat)
        i == re_finditer(code, import_pat)
        a == re_finditer(code, as_pat)
    IN  { Group(code, f[n], 3) : n \in 1..Len(f) }
        \cup { Group(code, i[n], 4) : n \in 1..Len(i) }
        \cup { Group(code, a[n], 3) : n \in 1..Len(a) }

\* set(re.findall(r'import\s+([\w.]+);', code))
extract_java_imports(code) ==
    LET pat == << Lit(Text("import")), Plus(Space), Plus(PathChar), Lit(<< ";" >>) >>
        m == re_finditer(code, pat)
    IN  { Group(code, m[n], 3) : n \in 1..Len(m) }

\* the outcomes of a validation
Accepted == [ok |-> TRUE, reason |-> "none", full |-> << >>, trunc |-> << >>]

Rejected(why) == [ok |-> FALSE, reason |-> why, full |-> << >>, trunc |-> << >>]

\* (False, f"import 路径被截断: {orig_module} -> {fixed_module}")
Truncated(orig_module, fixed_module) ==
    [ok |-> FALSE, reason |-> "truncated", full |-> orig_module, trunc |-> fixed_module]

\* the module names skipped by the second loop of validate_import_paths
StdlibModules ==
    { Text("os"), Text("sys"), Text("typing"), Text("re"), Text("json"), Text("time") }

\* orig_module.split('_')[0] if '_' in orig_module else orig_module.split('.')[0]
base_name(orig_module) ==
    IF "_" \in Range(orig_module)
    THEN str_split(orig_module, "_")[1]
    ELSE str_split(orig_module, ".")[1]

\* validate_import_paths (src 3121-3163).  The imports are Python sets, whose
\* iteration order is not fixed: when several pairs qualify, any of them is
\* the one reported.  The result is the set of the reports possible.
validate_import_paths(original_code, fixed_code, lang) ==
    IF lang = "python"
    THEN LET orig_imports == extract_python_imports(original_code)
             fixed_imports == extract_python_imports(fixed_code)
             first == { p \in orig_imports \X fixed_imports :
                          \/ startswith(p[1], p[2] \o << "_" >>)
                          \/ startswith(p[1], p[2] \o << "." >>) }
             second == { o \in orig_imports :
                           /\ str_split(o, ".")[1] \notin StdlibModules
                           /\ o \notin fixed_imports
                           /\ base_name(o) \in fixed_imports }
         IN  IF first # {} THEN { Truncated(p[1], p[2]) : p \in first }
             ELSE IF second # {} THEN { Truncated(o, base_name(o)) : o \in second }
             ELSE { Accepted }
    ELSE IF lang = "java"
    THEN LET orig_imports == extract_java_imports(original_code)
             fixed_imports == extract_java_imports(fixed_code)
             cut == { p \in orig_imports \X fixed_imports :
                        startswith(p[1], p[2] \o << "." >>) /\ p[1] # p[2] }
         IN  IF cut # {} THEN { Truncated(p[1], p[2]) : p \in cut }
             ELSE { Accepted }
    ELSE { Accepted }

\* validate_fix_semantics: the set of results (is_valid, error_msg) possible
validate_fix_semantics(original_code, fixed_code, lang) ==
    IF fixed_code = << >> \/ fixed_code = original_code
    THEN { Accepted }
    ELSE IF LET d == line_count(fixed_code) - line_count(original_code)
            IN  2 * (IF d < 0 THEN -d ELSE d) > line_count(original_code)
    THEN { Rejected("lines") }
    ELSE IF Cardinality((identifiers(fixed_code) \ identifiers(original_code))
                        \ keywords) > MaxAddedIds
    THEN { Rejected("identifiers") }
    ELSE IF brackets_broken(original_code, fixed_code)
    THEN { Rejected("brackets") }
    ELSE IF critical_removed(original_code, fixed_code, lang)
    THEN { Rejected("critical") }
    ELSE validate_import_paths(original_code, fixed_code, lang)

\* fix_python_import_truncated (src 1548-1561)
fix_python_import_truncated(code, truncated_module, full_module) ==
    LET from_t == Text("from ") \o truncated_module \o Text(" ")
        from_f == Text("from ") \o full_module \o Text(" ")
        import_t == Text("import ") \o truncated_module
        import_f == Text("import ") \o full_module
        lines == str_split(code, NL)
        fix(line) ==
            IF contains(line, from_t) \/ contains(line, import_t)
            THEN str_replace(str_replace(line, from_t, from_f), import_t, import_f)
            ELSE line
    IN  str_join([i \in 1..Len(lines) |-> fix(lines[i])], NL)

\* what a call of safe_apply_fix did: the first validation's result, the
\* number of validations run, the text tried by the recovery pass (or << >>),
\* and the pair returned
CallResult(first, n, recovered, code, applied) ==
    [first |-> first, validations |-> n, recovered |-> recovered,
     code |-> code, applied |-> applied]

\* a variant of safe_apply_fix without the recovery pass
Mut_safe_apply_fix_no_recovery(original_code, fixed_code, lang) ==
    { IF v.ok THEN CallResult(v, 1, << >>, fixed_code, TRUE)
      ELSE CallResult(v, 1, << >>, original_code, FALSE) :
        v \in validate_fix_semantics(original_code, fixed_code, lang) }

\* a variant of safe_apply_fix that hands back the patched text it rejected
Mut_safe_apply_fix_keeps_patch(original_code, fixed_code, lang) ==
    { IF v.ok THEN CallResult(v, 1, << >>, fixed_code, TRUE)
      ELSE CallResult(v, 1, << >>, fixed_code, FALSE) :
        v \in validate_fix_semantics(original_code, fixed_code, lang) }

\* safe_apply_fix (src 3188-3214): the set of outcomes possible
safe_apply_fix(original_code, fixed_code, lang) ==
    UNION {
      IF v.ok
      THEN { CallResult(v, 1, << >>, fixed_code, TRUE) }
      ELSE IF v.reason = "truncated"
      THEN LET recovered_code ==
                   fix_python_import_truncated(fixed_code, v.trunc, v.full)
           IN  IF recovered_code # fixed_code
               THEN { IF v2.ok
                      THEN CallResult(v, 2, recovered_code, recovered_code, TRUE)
                      ELSE CallResult(v, 2, recovered_code, original_code, FALSE) :
                        v2 \in validate_fix_semantics(original_code,
                                                      recovered_code, lang) }
               ELSE { CallResult(v, 1, << >>, original_code, FALSE) }
      ELSE { CallResult(v, 1, << >>, original_code, FALSE) } :
      v \in validate_fix_semantics(original_code, fixed_code, lang) }

(***************************************************************************)
(* The texts the validator is run on.                                      *)
(***************************************************************************)
\* every text of at most n lines drawn from `lines`
TextsOfLines(lines, n) ==
    { str_join(ls, NL) : ls \in SeqsUpTo(lines, n) }

\* Python lines that import a module and a package
PyImportLines ==
    { Text("import p.m"), Text("import p"), Text("import q.n"), Text("import q") }

\* Python lines that import from a module
PyFromLines ==
    { Text("from p.m import f"), Text("from p import f"), Text("import p.m"),
      Text("import p") }

\* Python lines with the other constructs the validator looks at
PyCodeLines ==
    { Text("x = (1)"), Text("x = (1"), Text("def f"), Text("a b c d e g") }

JavaLines ==
    { Text("import a.b;"), Text("import a;"), Text("public class A"), Text("x(") }

CppLines ==
    { Text("#include <a>"), Text("int main()"), Text("class A"), Text("x;") }

\* every text of at most MaxBrLen characters over the bracket alphabet
BracketTexts == SeqsUpTo({ "(", ")", "[", "{" }, MaxBrLen)

\* every text of at most MaxLineTextLen characters over a letter and the newline
LineTexts == SeqsUpTo({ "x", NL }, MaxLineTextLen)

\* the pairs (original_code, fixed_code) tried for a language
ValidatorPairs(lang) ==
    CASE lang = "python" ->
            UNION { TextsOfLines(lines, MaxValLines) \X TextsOfLines(lines, MaxValLines) :
                      lines \in { PyImportLines, PyFromLines, PyCodeLines } }
      [] lang = "java" ->
            TextsOfLines(JavaLines, MaxValLines) \X TextsOfLines(JavaLines, MaxValLines)
      [] lang = "cpp" ->
            TextsOfLines(CppLines, MaxValLines) \X TextsOfLines(CppLines, MaxValLines)
      [] OTHER -> (BracketTexts \X BracketTexts) \cup (LineTexts \X LineTexts)

ValIdle ==
    /\ vLang = "none"
    /\ vOrig = << >>
    /\ vFixed = << >>
    /\ vRes = << >>
    /\ vpc = "idle"

\* result_code, was_applied = safe_apply_fix(original_code, fixed_code, lang)
SafeApplyFix ==
    /\ vpc = "call"
    /\ vRes' \in safe_apply_fix(vOrig, vFixed, vLang)
    /\ vpc' = "done"
    /\ UNCHANGED <<vLang, vOrig, vFixed>>

(***************************************************************************)
(* topological_sort (src 3427-3471).  The nodes of a graph are 1..n in the *)
(* iteration order of the dict; graph[n] is the set of nodes n depends on. *)
(***************************************************************************)
Nodes(g) == DOMAIN g

\* build_dependency_graph keeps only dependencies that are files of the
\* directory and drops a file's dependency on itself: the graphs of at most
\* `most` files
DependencyGraphs(most) ==
    UNION { { g \in [1..n -> SUBSET (1..n)] : \A x \in 1..n : x \notin g[x] } :
              n \in 1..most }

\* the graphs of n files in which every file imports at most one other file
SingleImportGraphs(n) ==
    { g \in [1..n -> { {} } \cup { { d } : d \in 1..n }] : \A x \in 1..n : x \notin g[x] }

\* reverse_deps[node]: the nodes that depend on `node`.
reverse_deps(g, node) == { n \in Nodes(g) : node \in g[n] }

\* priority[node] = len(reverse_deps[node])
priority(g, node) == Cardinality(reverse_deps(g, node))

\* a variant of candidates that does not look at the dependencies
Mut_candidates_all(g, v) == { n \in Nodes(g) : n \notin v }

\* the nodes not yet visited all of whose dependencies are visited
candidates(g, v) ==
    { n \in Nodes(g) : n \notin v /\ \A d \in g[n] : d \in v }

\* list.sort(key=priority, reverse=True) is stable: among the candidates of
\* the highest priority the one that comes first in dict order is element 0.
FirstByPriority(g, c) ==
    CHOOSE n \in c :
        /\ \A m \in c : priority(g, m) <= priority(g, n)
        /\ \A m \in c : priority(g, m) = priority(g, n) => n <= m

\* one pass of the while loop body: the node appended to result
next_node(g, v) ==
    IF candidates(g, v) # {}
    THEN FirstByPriority(g, candidates(g, v))
    ELSE FirstByPriority(g, { n \in Nodes(g) : n \notin v })

\* a variant of AddVisited that forgets the node
MutForgetVisited(v, n) == v

\* visited.add(next_node)
AddVisited(v, n) == v \cup {n}

TopoIdle ==
    /\ graph = << >>
    /\ graphIn = << >>
    /\ visited = {}
    /\ result = << >>
    /\ tpc = "idle"

\* while len(result) < len(graph): one iteration
TopoStep ==
    /\ tpc = "loop"
    /\ Len(result) < Cardinality(Nodes(graph))
    /\ LET n == next_node(graph, visited)
       IN  /\ result' = Append(result, n)
           /\ visited' = AddVisited(visited, n)
    /\ UNCHANGED <<graph, graphIn, tpc>>

\* the loop condition fails: return result
TopoReturn ==
    /\ tpc = "loop"
    /\ Len(result) >= Cardinality(Nodes(graph))
    /\ tpc' = "done"
    /\ UNCHANGED <<graph, graphIn, visited, result>>

(***************************************************************************)
(* apply_replacements (src 2966-3042).                                     *)
(***************************************************************************)
\* s.lstrip()
lstrip(s) == SubSeq(s, RunEnd(s, 1, Space), Len(s))

\* s.rstrip()
rstrip(s) ==
    SubSeq(s, 1, CHOOSE j \in 0..Len(s) :
                     /\ \A k \in (j + 1)..Len(s) : s[k] \in Space
                     /\ (j = 0 \/ s[j] \notin Space))

\* s.strip()
strip(s) == lstrip(rstrip(s))

\* s.split(): the words between runs of white space
RECURSIVE ws_split(_)
ws_split(s) ==
    With(lstrip(s), LAMBDA t :
      IF t = << >> THEN << >>
      ELSE With(RunEnd(t, 1, Range(t) \ Space), LAMBDA e :
             << SubSeq(t, 1, e - 1) >> \o ws_split(SubSeq(t, e, Len(t)))))

\* ' '.join(s.split())
normalize_ws(s) == str_join(ws_split(s), " ")

\* t with the span of each match ms[i] replaced by repls[i], read from `from`
RECURSIVE splice(_, _, _, _)
splice(t, ms, repls, from) ==
    IF ms = << >> THEN SubSeq(t, from, Len(t))
    ELSE SubSeq(t, from, ms[1].s - 1) \o repls[1]
         \o splice(t, Tail(ms), Tail(repls), ms[1].e[Len(ms[1].e)])

\* the pattern \d+:\s* of a line-number prefix
LineNumberPrefix == << Plus(Digit), Lit(<< ":" >>), Star(Space) >>

\* re.split(r'\s*//.*$', s)[0]: s up to the first place from which white space,
\* then //, then no line break up to the end of s (or to its last line break)
no_comment(s) ==
    With(FirstOf({ i \in 1..Len(s) :
                     With(RunEnd(s, i, Space), LAMBDA j :
                       /\ j + 1 <= Len(s)
                       /\ s[j] = "/" /\ s[j + 1] = "/"
                       /\ \A k \in (j + 2)..(Len(s) - 1) : s[k] # NL) }), LAMBDA i :
      IF i = 0 THEN s ELSE SubSeq(s, 1, i - 1))

\* re.split(r'\s*//.*$', s.strip())[0].strip()
bare(s) == strip(no_comment(strip(s)))

\* ' ' * n
Spaces(n) == [i \in 1..n |-> " "]

\* the body of the loop `for r in replacements`: the text it leaves in code
apply_replacement(code, r) ==
    \* old = re.sub(r'^\d+:\s*', '', old): the pattern is anchored at the start
    With(With(re_match_at(r.old, 1, LineNumberPrefix, << >>), LAMBDA m :
           IF m = << >> THEN r.old ELSE SubSeq(r.old, m[Len(m)], Len(r.old))),
         LAMBDA old :
    \* new = re.sub(r'\d+:\s*', '', new): not anchored, every match goes
    With(With(re_finditer(r.new, LineNumberPrefix), LAMBDA ms :
           splice(r.new, ms, [i \in 1..Len(ms) |-> << >>], 1)),
         LAMBDA new :
    IF old = << >> THEN code
    \* method 1: the first occurrence of old is replaced by new
    ELSE IF contains(code, old) THEN str_replace1(code, old, new)
    ELSE
    With(bare(old), LAMBDA old_no_comment :
    With(str_split(code, NL), LAMBDA lines :
    IF old_no_comment # << >> /\ contains(code, old_no_comment)
    \* method 2: the first line that equals old once comments are cut is
    \* replaced by its indentation and new without its comment
    THEN With(FirstOf({ i \in 1..Len(lines) : bare(lines[i]) = old_no_comment }),
              LAMBDA i :
           IF i = 0 THEN code
           ELSE str_join([lines EXCEPT
                             ![i] = Spaces(Len(lines[i]) - Len(lstrip(lines[i])))
                                    \o bare(new)], NL))
    \* method 3: the first line that holds old up to white space gets the ';'
    \* or else the ')' that new has and old has not
    ELSE
    With(IF old_no_comment # << >> THEN normalize_ws(old_no_comment)
                                   ELSE normalize_ws(old), LAMBDA normalized_old :
    With(";" \in Range(new) /\ ";" \notin Range(old), LAMBDA semi :
    With(")" \in Range(new) /\ ")" \notin Range(old), LAMBDA paren :
    With(FirstOf({ i \in 1..Len(lines) :
                     /\ normalized_old # << >>
                     /\ contains(normalize_ws(no_comment(lines[i])), normalized_old)
                     /\ \/ semi /\ ~endswith(rstrip(lines[i]), << ";" >>)
                        \/ ~semi /\ paren }), LAMBDA line_idx :
    IF line_idx = 0 THEN code
    ELSE
    With(rstrip(lines[line_idx]), LAMBDA stripped :
    With(str_find(stripped, Text("//")), LAMBDA comment_pos :
    With(IF semi THEN ";" ELSE ")", LAMBDA mark :
      str_join([lines EXCEPT
                   ![line_idx] =
                       IF comment_pos > 1
                       THEN rstrip(SubSeq(stripped, 1, comment_pos - 1))
                            \o << mark, " ", " " >>
                            \o SubSeq(stripped, comment_pos, Len(stripped))
                       ELSE stripped \o << mark >>], NL))))))))))))

RECURSIVE apply_replacements(_, _)
apply_replacements(code, replacements) ==
    IF replacements = << >> THEN code
    ELSE apply_replacements(apply_replacement(code, replacements[1]),
                            Tail(replacements))

(***************************************************************************)
(* The texts and candidates apply_replacements is run on.                  *)
(***************************************************************************)
ApplierTexts ==
    TextsOfLines({ Text("x = 1"), Text("  y = a // c"), Text("f(a"), Text("1: x") },
                 MaxApplLines)

Candidates ==
    { [old |-> o, new |-> n] :
        o \in { Text("a"), Text("1: x"), Text("y = a"), Text("y  =  a"),
                Text("y = a // d"), Text("f( a"), Text("a // d") },
        n \in { Text("b"), Text("b[1:2]"), Text("y = a;"), Text("f(a)"),
                Text("2: z // n") } }

ApplIdle ==
    /\ aCode = << >>
    /\ aRepl = << >>
    /\ aOut = << >>
    /\ apc = "idle"

\* new_code = apply_replacements(code, replacements)
ApplyReplacements ==
    /\ apc = "call"
    /\ aOut' = apply_replacements(aCode, aRepl)
    /\ apc' = "done"
    /\ UNCHANGED <<aCode, aRepl>>

(***************************************************************************)
(* The rule engine: try_local_fix (src 2776-2832) with the rule tables     *)
(* LOCAL_FIX_RULES (src 137-287) for Python and Java.                      *)
(***************************************************************************)
\* int(s) for a text of digits
RECURSIVE to_int(_)
to_int(s) ==
    IF s = << >> THEN 0
    ELSE to_int(SubSeq(s, 1, Len(s) - 1)) * 10
         + (CHOOSE d \in 0..9 :
              << "0", "1", "2", "3", "4", "5", "6", "7", "8", "9" >>[d + 1] = s[Len(s)])

\* str(n) for n >= 0
RECURSIVE to_str(_)
to_str(n) ==
    LET d == << "0", "1", "2", "3", "4", "5", "6", "7", "8", "9" >>
    IN  IF n < 10 THEN << d[n + 1] >> ELSE to_str(n \div 10) \o << d[(n % 10) + 1] >>

\* re.search(pat, t): the first match, << >> when there is none
re_search(t, pat) ==
    With(re_finditer(t, pat), LAMBDA ms : IF ms = << >> THEN << >> ELSE ms[1])

\* extract_line_num (src 578-586); None is 0
extract_line_num(error_msg) ==
    With(re_search(error_msg, << Lit(<< ":" >>), Plus(Digit), Lit(<< ":" >>) >>),
         LAMBDA match :
      IF match # << >> THEN to_int(Group(error_msg, match, 2))
      ELSE With(re_search(error_msg, << Lit(Text("line ")), Plus(Digit) >>),
                LAMBDA match2 :
             IF match2 # << >> THEN to_int(Group(error_msg, match2, 2)) ELSE 0))

\* the loop `for marker in markers`: the position of the first comment marker
\* in line, 0 when there is none
first_marker(line, markers) == FirstOf({ str_find(line, mk) : mk \in markers } \ { 0 })

\* add_semicolon_at_line (src 551-576)
add_semicolon_at_line(code, line_num) ==
    With(str_split(code, NL), LAMBDA lines :
    IF line_num <= 0 \/ line_num > Len(lines) THEN code
    ELSE
    With(rstrip(lines[line_num]), LAMBDA line :
    IF line # << >> /\ line[Len(line)] \in { ";", "{", "}" } THEN code
    ELSE
    With(first_marker(line, { Text("//"), Text("/*"), Text("#") }), LAMBDA comment_pos :
    IF comment_pos > 1
    THEN With(rstrip(SubSeq(line, 1, comment_pos - 1)), LAMBDA before :
           IF before # << >> /\ before[Len(before)] # ";"
           THEN str_join([lines EXCEPT
                             ![line_num] = before \o Text(";  ")
                                           \o SubSeq(line, comment_pos, Len(line))], NL)
           ELSE code)
    ELSE str_join([lines EXCEPT ![line_num] = line \o << ";" >>], NL))))

\* the loop `for err_line in error_msg.split('\n')` of fix_semicolon_before:
\* `continue` is what the lines after the first give
RECURSIVE semicolon_before_lines(_, _)
semicolon_before_lines(code, err_lines) ==
    IF err_lines = << >> THEN code
    ELSE
    With(semicolon_before_lines(code, Tail(err_lines)), LAMBDA continue :
    With(err_lines[1], LAMBDA err_line :
    With(re_search(err_line, << Lit(Text("before '")), Plus(WordChar), Lit(<< "'" >>) >>),
         LAMBDA before_match :
    IF before_match = << >> THEN continue
    ELSE IF Group(err_line, before_match, 2)[1] \notin Lower \cup Upper \cup { "_" }
    THEN continue
    ELSE
    With(re_search(err_line, << Lit(<< ":" >>), Plus(Digit), Lit(<< ":" >>) >>),
         LAMBDA line_match :
    IF line_match = << >> THEN continue
    ELSE
    With(to_int(Group(err_line, line_match, 2)), LAMBDA line_num :
    With(str_split(code, NL), LAMBDA lines :
    IF line_num < 2 \/ line_num - 1 > Len(lines) THEN continue
    ELSE
    With(rstrip(lines[line_num - 1]), LAMBDA line :
    IF line # << >> /\ line[Len(line)] \in { ";", "{", "}" } THEN continue
    ELSE
    With(first_marker(line, { Text("//"), Text("/*") }), LAMBDA comment_pos :
    IF comment_pos > 1
    THEN With(rstrip(SubSeq(line, 1, comment_pos - 1)), LAMBDA before :
           IF before # << >> /\ before[Len(before)] # ";"
           THEN str_join([lines EXCEPT
                             ![line_num - 1] = before \o Text(";  ")
                                               \o SubSeq(line, comment_pos, Len(line))],
                         NL)
           ELSE continue)
    ELSE str_join([lines EXCEPT ![line_num - 1] = line \o << ";" >>], NL)))))))))

\* fix_semicolon_before (src 2283-2332)
fix_semicolon_before(code, error_msg) ==
    semicolon_before_lines(code, str_split(error_msg, NL))

\* a variant of fix_eof_brace that adds one closing brace whatever the count
Mut_fix_eof_brace_one(code) ==
    IF str_count(code, "{") - str_count(code, "}") > 0
    THEN str_join(Append(str_split(code, NL), << "}" >>), NL)
    ELSE code

\* fix_eof_brace (src 846-856)
fix_eof_brace(code) ==
    With(str_count(code, "{") - str_count(code, "}"), LAMBDA open_count :
      str_join(str_split(code, NL)
               \o [i \in 1..(IF open_count > 0 THEN open_count ELSE 0) |-> << "}" >>],
               NL))

\* fix_python_invalid_assignment (src 1344-1360)
fix_python_invalid_assignment(code, line_num) ==
    With(str_split(code, NL), LAMBDA lines :
    IF line_num <= 0 \/ line_num > Len(lines) THEN code
    ELSE
    With(lines[line_num], LAMBDA line :
    IF /\ contains(line, Text(" = "))
       /\ \/ contains(line, Text("if "))
          \/ contains(line, Text("while "))
          \/ contains(line, Text("elif "))
    \* re.sub(r'(\s+)(\w+)\s*=\s*(\w+)', r'\1\2 == \3', line)
    THEN With(re_finditer(line, << Plus(Space), Plus(WordChar), Star(Space),
                                   Lit(<< "=" >>), Star(Space), Plus(WordChar) >>),
              LAMBDA ms :
           str_join([lines EXCEPT
                       ![line_num] =
                           splice(line, ms,
                                  [i \in 1..Len(ms) |->
                                     Group(line, ms[i], 1) \o Group(line, ms[i], 2)
                                     \o Text(" == ") \o Group(line, ms[i], 6)], 1)],
                    NL))
    ELSE code))

\* the pattern ([^=!<>])=([^=])
LoneEquals == << NotIn({ "=", "!", "<", ">" }), Lit(<< "=" >>), NotIn({ "=" }) >>

\* fix_python_eq_to_assign (src 1363-1378)
fix_python_eq_to_assign(code, line_num) ==
    With(str_split(code, NL), LAMBDA lines :
    IF line_num <= 0 \/ line_num > Len(lines) THEN code
    ELSE
    With(lines[line_num], LAMBDA line :
    \* re.search(r'(if|while|elif).*[^=!<>]=[^=]', line)
    IF \E k \in { Text("if"), Text("while"), Text("elif") } :
          \E i \in 1..(Len(line) - Len(k) + 1) :
             /\ SubSeq(line, i, i + Len(k) - 1) = k
             /\ \E j \in (i + Len(k))..Len(line) :
                   re_match_at(line, j, LoneEquals, << >>) # << >>
    \* re.sub(r'([^=!<>])=([^=])', r'\1==\2', line)
    THEN With(re_finditer(line, LoneEquals), LAMBDA ms :
           str_join([lines EXCEPT
                       ![line_num] =
                           splice(line, ms,
                                  [i \in 1..Len(ms) |->
                                     Group(line, ms[i], 1) \o Text("==")
                                     \o Group(line, ms[i], 3)], 1)],
                    NL))
    ELSE code))

\* re.search of a trigger a.*b.*c of a rule table, given as the sequence of
\* its literal parts
RECURSIVE search_parts(_, _)
search_parts(line, parts) ==
    IF parts = << >> THEN TRUE
    ELSE With(str_find(line, parts[1]), LAMBDA i :
           /\ i > 0
           /\ search_parts(SubSeq(line, i + Len(parts[1]), Len(line)), Tail(parts)))

\* LOCAL_FIX_RULES (src 137-287) in registration order, cut down to the
\* triggers that match a line of Diagnostics below; fix "None" is the value
\* None, fix "code" is lambda m, code: code
LOCAL_FIX_RULES(lang) ==
    CASE lang = "python" ->
            << [parts |-> << Text("F821"), Text("undefined name") >>, fix |-> "None"],
               [parts |-> << Text("cannot assign to") >>,
                fix |-> "fix_python_invalid_assignment"],
               [parts |-> << Text("invalid syntax"), Text("==") >>,
                fix |-> "fix_python_eq_to_assign"],
               [parts |-> << Text("E501"), Text("line too long") >>, fix |-> "code"] >>
      [] lang = "java" ->
            << [parts |-> << Text("';' expected") >>, fix |-> "add_semicolon_at_line"],
               [parts |-> << Text("reached end of file while parsing") >>,
                fix |-> "fix_eof_brace"],
               [parts |-> << Text("variable "), Text(" is already defined") >>,
                fix |-> "code"],
               [parts |-> << Text("incompatible types") >>, fix |-> "None"],
               [parts |-> << Text("unreachable statement") >>,
                fix |-> "fix_unreachable_statement"] >>
      [] OTHER -> << >>

\* fix_unreachable_statement (src 901-911)
fix_unreachable_statement(code, line_num) ==
    With(str_split(code, NL), LAMBDA lines :
    IF line_num <= 0 \/ line_num > Len(lines) THEN code
    ELSE str_join([lines EXCEPT ![line_num] = Text("// ") \o lstrip(lines[line_num])],
                  NL))

\* fix_func(match, code) of a rule; match.string is the line of the message
apply_rule(fix, err_line, code) ==
    CASE fix = "fix_python_invalid_assignment" ->
            fix_python_invalid_assignment(code, extract_line_num(err_line))
      [] fix = "fix_python_eq_to_assign" ->
            fix_python_eq_to_assign(code, extract_line_num(err_line))
      [] fix = "add_semicolon_at_line" ->
            add_semicolon_at_line(code, extract_line_num(err_line))
      [] fix = "fix_eof_brace" -> fix_eof_brace(code)
      [] fix = "fix_unreachable_statement" ->
            fix_unreachable_statement(code, extract_line_num(err_line))
      [] OTHER -> code

\* a variant of try_rules without the break: every rule that matches and has
\* a transform is applied, one after the other
RECURSIVE Mut_try_rules_no_break(_, _, _)
Mut_try_rules_no_break(rules, err_line, code) ==
    IF rules = << >> THEN code
    ELSE IF search_parts(err_line, rules[1].parts) /\ rules[1].fix # "None"
    THEN Mut_try_rules_no_break(Tail(rules), err_line,
                                apply_rule(rules[1].fix, err_line, code))
    ELSE Mut_try_rules_no_break(Tail(rules), err_line, code)

\* the loop `for pattern, fix_func in rules.items()` for one line of the
\* message: the text after the first rule that matches, has a transform and
\* changes the text
RECURSIVE try_rules(_, _, _)
try_rules(rules, err_line, code) ==
    IF rules = << >> THEN code
    ELSE IF search_parts(err_line, rules[1].parts) /\ rules[1].fix # "None"
    THEN With(apply_rule(rules[1].fix, err_line, code), LAMBDA new_code :
           IF new_code # code THEN new_code
           ELSE try_rules(Tail(rules), err_line, code))
    ELSE try_rules(Tail(rules), err_line, code)

\* the pair (code, fixed_any) try_local_fix returns
LocalFix(code, fixed) == [code |-> code, fixed |-> fixed]

\* a variant of rule_pass that does not raise the flag when a rule changes
\* the text
RECURSIVE Mut_rule_pass_silent(_, _, _)
Mut_rule_pass_silent(rules, error_lines, acc) ==
    IF error_lines = << >> THEN acc
    ELSE IF ~contains(error_lines[1], Text("error:"))
    THEN Mut_rule_pass_silent(rules, Tail(error_lines), acc)
    ELSE With(try_rules(rules, error_lines[1], acc.code), LAMBDA new_code :
           Mut_rule_pass_silent(rules, Tail(error_lines),
                                LocalFix(new_code, acc.fixed)))

\* a variant of rule_pass in which the flag tells whether the last line
\* looked at changed the text
RECURSIVE Mut_rule_pass_last_line(_, _, _)
Mut_rule_pass_last_line(rules, error_lines, acc) ==
    IF error_lines = << >> THEN acc
    ELSE IF ~contains(error_lines[1], Text("error:"))
    THEN Mut_rule_pass_last_line(rules, Tail(error_lines), acc)
    ELSE With(try_rules(rules, error_lines[1], acc.code), LAMBDA new_code :
           Mut_rule_pass_last_line(rules, Tail(error_lines),
                                   LocalFix(new_code, new_code # acc.code)))

\* the loop `for err_line in error_lines` (layer 5): only a line that holds
\* 'error:' is looked at
RECURSIVE rule_pass(_, _, _)
rule_pass(rules, error_lines, acc) ==
    IF error_lines = << >> THEN acc
    ELSE IF ~contains(error_lines[1], Text("error:"))
    THEN rule_pass(rules, Tail(error_lines), acc)
    ELSE With(try_rules(rules, error_lines[1], acc.code), LAMBDA new_code :
           rule_pass(rules, Tail(error_lines),
                     LocalFix(new_code, acc.fixed \/ new_code # acc.code)))

\* try_local_fix for Python and Java: layers 1 to 3 are for C and C++ only
try_local_fix(code, error_msg, lang) ==
    With(IF lang \in { "cpp", "c", "java" } /\ contains(error_msg, Text("before '"))
         THEN fix_semicolon_before(code, error_msg) ELSE code, LAMBDA new_code :
      IF new_code # code THEN LocalFix(new_code, TRUE)
      ELSE rule_pass(LOCAL_FIX_RULES(lang), str_split(error_msg, NL),
                     LocalFix(code, FALSE)))

(***************************************************************************)
(* The texts and messages the rule engine is run on.                       *)
(***************************************************************************)
RuleLangs == { "python", "java" }

\* the line numbers a message names
DiagLineNums == 1..MaxDiagLineNum

\* what CPython prints for the line `if x = 5:` at line n of the file
PyTraceback(n) ==
    Text("  File \"/workspace/code.py\", line ") \o to_str(n) \o << NL >>
    \o Text("    if x = 5:\n       ^^^^^\n")
    \o Text("SyntaxError: invalid syntax. Maybe you meant '==' or ':=' instead of '='?")

\* a line file:n: error: text, the form the rule pass looks at
ErrorLine(file, n, text) ==
    Text(file) \o << ":" >> \o to_str(n) \o Text(": error: ") \o Text(text)

PyCannotAssign(n) == ErrorLine("/workspace/code.py", n, "cannot assign to name")

PyInvalidSyntax(n) ==
    ErrorLine("/workspace/code.py", n, "invalid syntax. Maybe you meant '=='")

PyUndefinedName(n) ==
    Text("/workspace/code.py:") \o to_str(n) \o Text(":1: F821 undefined name 'y'")

JavaEof(n) == ErrorLine("/workspace/code.java", n, "reached end of file while parsing")

JavaSemicolon(n) == ErrorLine("/workspace/code.java", n, "';' expected")

JavaTypes(n) ==
    ErrorLine("/workspace/code.java", n,
              "incompatible types: String cannot be converted to int")

JavaBefore(n) == ErrorLine("/workspace/code.java", n, "expected ';' before 'x'")

JavaUnreachable(n) == ErrorLine("/workspace/code.java", n, "unreachable statement")

\* a line in which two triggers of the Java table are found
JavaTypesUnreachable(n) ==
    ErrorLine("/workspace/code.java", n, "incompatible types: unreachable statement")

\* a line in which two triggers of the Java table that have a transform are
\* found
JavaSemicolonUnreachable(n) ==
    ErrorLine("/workspace/code.java", n, "';' expected: unreachable statement")

\* the messages of the toolchain: at most MaxDiagLines lines, and for Python
\* the tracebacks of the interpreter
Diagnostics(lang) ==
    IF lang = "python"
    THEN (TextsOfLines(UNION { { PyCannotAssign(n), PyInvalidSyntax(n) } :
                                 n \in DiagLineNums }
                       \cup { PyUndefinedName(1) },
                       MaxDiagLines) \ { << >> })
         \cup { PyTraceback(n) : n \in DiagLineNums }
    ELSE TextsOfLines(UNION { { JavaSemicolon(n), JavaBefore(n) } : n \in DiagLineNums }
                      \cup { JavaEof(1), JavaTypes(1), JavaUnreachable(1),
                             JavaTypesUnreachable(1), JavaSemicolonUnreachable(1),
                             Text("1 error") },
                      MaxDiagLines) \ { << >> }

\* the texts the rule engine is run on
RuleTexts(lang) ==
    TextsOfLines(IF lang = "python"
                 THEN { Text("if x = 5:"), Text("y = 1"), Text("    pass") }
                 ELSE { Text("class A {"), Text("}"), Text("int x = 1"),
                        Text("f() // c") },
                 MaxRuleLines)

RuleIdle ==
    /\ rLang = "none"
    /\ rCode = << >>
    /\ rMsg = << >>
    /\ rRes = << >>
    /\ rpc = "idle"

\* code, fixed = try_local_fix(code, error_msg, lang)
TryLocalFix ==
    /\ rpc = "call"
    /\ rRes' = try_local_fix(rCode, rMsg, rLang)
    /\ rpc' = "done"
    /\ UNCHANGED <<rLang, rCode, rMsg>>

(***************************************************************************)
(* The parts of the repair loops: files, the toolchain, the context of an  *)
(* error, the oracle.                                                      *)
(***************************************************************************)
\* MAX_ITERATIONS (src 422)
MAX_ITERATIONS == 50

\* CONTEXT_LINES (src 423)
CONTEXT_LINES == 10

\* while not ok and compile_iter < 3 (src 3279)
MaxCompileIter == 3

\* the line separator of the host, a POSIX system
os_linesep == << NL >>

\* open(path, 'r', encoding='utf-8').read(): text mode reads \r\n and \r as \n
read_text(bytes) ==
    str_replace(str_replace(bytes, << "\r", NL >>, << NL >>), << "\r" >>, << NL >>)

\* open(path, 'w', encoding='utf-8').write(code): text mode writes \n as the
\* line separator of the host
write_text(code) == str_replace(code, << NL >>, os_linesep)

\* LANG_CONFIG[lang].get("compile_cmd") (src 77, 92)
has_compile_cmd(lang) == lang # "python"

\* what `ruff check --fix --unsafe-fixes` may leave in the file: the file as
\* it was, or the file without an import line it takes for unused (F401)
linter_fix(file) ==
    With(str_split(file, NL), LAMBDA lines :
      { file }
      \cup { str_join(SubSeq(lines, 1, i - 1) \o SubSeq(lines, i + 1, Len(lines)), NL) :
               i \in { j \in 1..Len(lines) : startswith(lines[j], Text("import ")) } })

CheckResult(ok, errors, code) == [ok |-> ok, errors |-> errors, code |-> code]

\* the messages a failing toolchain step may give
ToolchainErrors(lang) ==
    IF lang = "python"
    THEN { PyTraceback(1), PyCannotAssign(1), PyUndefinedName(1) }
    ELSE { JavaEof(1), JavaSemicolon(2), JavaTypes(2), Text("1 error") }

\* run_static_check (src 2610-2631): every (ok, errors, code) it may return.
\* With a linter_fix (Python only) what `cat` prints of the file after it
\* becomes the text unless it is empty; then the linter passes or fails.
run_static_check(code, lang) ==
    With(IF lang = "python"
         THEN { IF read_text(f) # << >> THEN read_text(f) ELSE code :
                  f \in linter_fix(write_text(code)) }
         ELSE { code }, LAMBDA codes :
      { CheckResult(TRUE, << >>, c) : c \in codes }
      \cup { CheckResult(FALSE, e, c) : e \in ToolchainErrors(lang), c \in codes })

\* LANG_CONFIG[lang]["error_pattern"] (src 82, 97): the alternatives of the
\* pattern; the number is what the second element of each matches
error_pattern(lang) ==
    IF lang = "python"
    THEN { << Lit(Text("line ")), Plus(Digit) >> }
    ELSE { << Lit(<< ":" >>), Plus(Digit), Lit(<< ":" >>) >>,
           << Lit(Text("java:")), Plus(Digit), Lit(<< ")" >>) >> }

\* extract_all_error_lines (src 2665-2678): the numbers the error_pattern of
\* the language finds in the message
extract_all_error_lines(error_msg, lang) ==
    UNION { With(re_finditer(error_msg, pat), LAMBDA ms :
              { to_int(Group(error_msg, ms[i], 2)) : i \in 1..Len(ms) }) :
            pat \in error_pattern(lang) }

\* re.search(r'line\s+(\d+)', error_msg, re.IGNORECASE): the number of the
\* leftmost match over the spellings of `line`, {} when there is none
line_fallback(error_msg) ==
    With({ re_search(error_msg, << Lit(w), Plus(Space), Plus(Digit) >>) :
             w \in { << a, b, c, d >> : a \in { "l", "L" }, b \in { "i", "I" },
                                        c \in { "n", "N" }, d \in { "e", "E" } } }
         \ { << >> }, LAMBDA ms :
      IF ms = {} THEN {}
      ELSE { to_int(Group(error_msg, CHOOSE m \in ms : \A o \in ms : m.s <= o.s, 3)) })

Min(S) == CHOOSE x \in S : \A y \in S : x <= y

Max(S) == CHOOSE x \in S : \A y \in S : x >= y

\* extract_error_context (src 2681-2731): the primary line and the range
\* [start, end) of lines of the context; the context is empty when the range
\* is, and no line number at all gives (None, None)
extract_error_context(code, error_msg, lang) ==
    With(extract_all_error_lines(error_msg, lang), LAMBDA found :
    With(IF found # {} THEN found ELSE line_fallback(error_msg), LAMBDA error_lines :
    IF error_lines = {} THEN [line_num |-> 0, start |-> 0, end |-> 0]
    ELSE
    With(Min(error_lines), LAMBDA primary_line :
    With(str_split(code, NL), LAMBDA lines :
    With(IF Cardinality(error_lines) > 1
         THEN Max({ CONTEXT_LINES, Max(error_lines) - primary_line + 2 })
         ELSE CONTEXT_LINES, LAMBDA context_after :
      [line_num |-> primary_line,
       start |-> Max({ 0, primary_line - CONTEXT_LINES - 1 }),
       end |-> Min({ Len(lines), primary_line + context_after })])))))

\* line_num of extract_error_context is a number: some line number is found
\* in the message (None, None is returned otherwise)
line_located(code, error_msg, lang) ==
    extract_error_context(code, error_msg, lang).line_num # 0

\* `if context:` after line_num, context = extract_error_context(...)
has_context(code, error_msg, lang) ==
    With(extract_error_context(code, error_msg, lang), LAMBDA c : c.start < c.end)

\* the candidates the oracle may propose
OracleCandidates(lang) ==
    IF lang = "python"
    THEN { [old |-> Text("(1)"), new |-> Text("(1")],
           [old |-> Text("(1\n"), new |-> Text("(1)\n")],
           [old |-> Text("x = 5"), new |-> Text("x == 5")] }
    ELSE { [old |-> Text("int x = 1\n"), new |-> Text("int x = 1;\n")],
           [old |-> Text("class A {"), new |-> Text("class A")] }

\* call_llm_for_fix (src 2847-2932): the list of replacements of the first
\* reply of the oracle that parses, [] when none does
call_llm_for_fix(lang) == { << r >> : r \in OracleCandidates(lang) } \cup { << >> }

(***************************************************************************)
(* auto_fix (src 3232-3360).                                               *)
(***************************************************************************)
FixLangs == { "python", "java" }

\* the bytes of the input file
InputFiles(lang) ==
    IF lang = "python"
    THEN { Text("x = (1)\n"), Text("x = (1)\r\n"), Text("import os\nx = (1)\n"),
           Text("if x = 5:\n") }
    ELSE { Text("class A {\n}\n"), Text("class A {\nint x = 1\n}\n"),
           Text("class A {\n") }

NoPatch == << >>

Patch(pre, post) == IF pre = post THEN NoPatch ELSE [pre |-> pre, post |-> post]

\* no turn of a loop was the last step
NoTurn == << >>

\* what a turn of a loop did: whether try_local_fix changed the text it was
\* given, the flag `fixed` it returned, whether call_llm_for_fix was called,
\* and whether a line number is found in the message of the turn
Turn(code, lf, oracle, located) ==
    [changed |-> lf.code # code, fixed |-> lf.fixed, oracle |-> oracle,
     located |-> located]

FixIdle ==
    /\ fLang = "none"
    /\ fInput = << >>
    /\ fCode = << >>
    /\ fpc = "idle"
    /\ iteration = 0
    /\ compile_iter = 0
    /\ fOk = FALSE
    /\ success = FALSE
    /\ fOutput = << >>
    /\ fFirstClean = FALSE
    /\ fRepaired = FALSE
    /\ fPatch = NoPatch
    /\ fTurn = NoTurn

\* with open(input_file, 'r', encoding='utf-8') as f: code = f.read()
ReadInput ==
    /\ fpc = "read"
    /\ fCode' = read_text(fInput)
    /\ fpc' = "phase1"
    /\ fTurn' = NoTurn
    /\ UNCHANGED <<fLang, fInput, iteration, compile_iter, fOk, success, fOutput,
                   fFirstClean, fRepaired, fPatch>>

AfterPhase1 == IF has_compile_cmd(fLang) THEN "phase2" ELSE "phase3"

\* Phase 1, the static check passes
Phase1Clean ==
    /\ fpc = "phase1"
    /\ \E r \in run_static_check(fCode, fLang) :
          /\ r.ok
          /\ fCode' = r.code
    /\ fFirstClean' = TRUE
    /\ fpc' = AfterPhase1
    /\ fTurn' = NoTurn
    /\ UNCHANGED <<fLang, fInput, iteration, compile_iter, fOk, success, fOutput,
                   fRepaired, fPatch>>

\* Phase 1, the static check fails and a rule changes the text: the check is
\* run once more
Phase1LocalFix ==
    /\ fpc = "phase1"
    /\ \E r \in run_static_check(fCode, fLang) :
          /\ ~r.ok
          /\ \E lf \in { try_local_fix(r.code, r.errors, fLang) } :
                /\ lf.fixed
                /\ fTurn' = Turn(r.code, lf, FALSE,
                                 line_located(r.code, r.errors, fLang))
                /\ \E r2 \in run_static_check(lf.code, fLang) : fCode' = r2.code
    /\ fFirstClean' = FALSE
    /\ fRepaired' = TRUE
    /\ fpc' = AfterPhase1
    /\ UNCHANGED <<fLang, fInput, iteration, compile_iter, fOk, success, fOutput, fPatch>>

\* Phase 1, the static check fails and no rule changes the text
Phase1NoFix ==
    /\ fpc = "phase1"
    /\ \E r \in run_static_check(fCode, fLang) :
          /\ ~r.ok
          /\ \E lf \in { try_local_fix(r.code, r.errors, fLang) } :
                /\ ~lf.fixed
                /\ fTurn' = Turn(r.code, lf, FALSE,
                                 line_located(r.code, r.errors, fLang))
                /\ fCode' = lf.code
    /\ fFirstClean' = FALSE
    /\ fpc' = AfterPhase1
    /\ UNCHANGED <<fLang, fInput, iteration, compile_iter, fOk, success, fOutput,
                   fRepaired, fPatch>>

\* Phase 2: ok, stdout, stderr = compile_code(lang) before the loop
Phase2Compile ==
    /\ fpc = "phase2"
    /\ fOk' \in BOOLEAN
    /\ compile_iter' = 0
    /\ fpc' = "phase2loop"
    /\ fTurn' = NoTurn
    /\ UNCHANGED <<fLang, fInput, fCode, iteration, success, fOutput,
                   fFirstClean, fRepaired, fPatch>>

\* Phase 2, one turn of `while not ok and compile_iter < 3` in which a rule
\* changes the text
Phase2LocalFix ==
    /\ fpc = "phase2loop"
    /\ ~fOk /\ compile_iter < MaxCompileIter
    /\ \E error_msg \in ToolchainErrors(fLang) :
          \E lf \in { try_local_fix(fCode, error_msg, fLang) } :
             /\ lf.fixed
             /\ fTurn' = Turn(fCode, lf, FALSE,
                              line_located(fCode, error_msg, fLang))
             /\ fCode' = lf.code
    /\ fRepaired' = TRUE
    /\ compile_iter' = compile_iter + 1
    /\ fOk' \in BOOLEAN
    /\ UNCHANGED <<fLang, fInput, fpc, iteration, success, fOutput, fFirstClean,
                   fPatch>>

\* Phase 2, one turn in which no rule changes the text and no context is found
Phase2NoContext ==
    /\ fpc = "phase2loop"
    /\ ~fOk /\ compile_iter < MaxCompileIter
    /\ \E error_msg \in ToolchainErrors(fLang) :
          /\ ~try_local_fix(fCode, error_msg, fLang).fixed
          /\ fTurn' = Turn(fCode, try_local_fix(fCode, error_msg, fLang), FALSE,
                           line_located(fCode, error_msg, fLang))
          /\ ~has_context(fCode, error_msg, fLang)
    /\ compile_iter' = compile_iter + 1
    /\ fOk' \in BOOLEAN
    /\ UNCHANGED <<fLang, fInput, fCode, fpc, iteration, success, fOutput,
                   fFirstClean, fRepaired, fPatch>>

\* Phase 2, one turn in which the oracle is asked: what it proposes is
\* applied and becomes the text
Phase2Oracle ==
    /\ fpc = "phase2loop"
    /\ ~fOk /\ compile_iter < MaxCompileIter
    /\ \E error_msg \in ToolchainErrors(fLang), reply \in call_llm_for_fix(fLang) :
          /\ ~try_local_fix(fCode, error_msg, fLang).fixed
          /\ fTurn' = Turn(fCode, try_local_fix(fCode, error_msg, fLang), TRUE,
                           line_located(fCode, error_msg, fLang))
          /\ has_context(fCode, error_msg, fLang)
          /\ \E new_code \in { apply_replacements(fCode, reply) } :
                /\ fCode' = new_code
                /\ fPatch' = IF new_code = fCode THEN fPatch ELSE Patch(fCode, new_code)
    /\ fRepaired' = TRUE
    /\ compile_iter' = compile_iter + 1
    /\ fOk' \in BOOLEAN
    /\ UNCHANGED <<fLang, fInput, fpc, iteration, success, fOutput, fFirstClean>>

\* Phase 2 ends: the compilation passed, or three turns are used up
Phase2Exit ==
    /\ fpc = "phase2loop"
    /\ fOk \/ compile_iter >= MaxCompileIter
    /\ fpc' = "phase3"
    /\ fTurn' = NoTurn
    /\ UNCHANGED <<fLang, fInput, fCode, iteration, compile_iter, fOk, success,
                   fOutput, fFirstClean, fRepaired, fPatch>>

\* Phase 3, a turn of `for iteration in range(MAX_ITERATIONS)`: the
\* compilation fails and the loop is left
Phase3CompileFails ==
    /\ fpc = "phase3" /\ iteration < MAX_ITERATIONS
    /\ has_compile_cmd(fLang)
    /\ fpc' = "save"
    /\ fTurn' = NoTurn
    /\ UNCHANGED <<fLang, fInput, fCode, iteration, compile_iter, fOk, success,
                   fOutput, fFirstClean, fRepaired, fPatch>>

\* Phase 3, a turn in which the program runs without error
Phase3Success ==
    /\ fpc = "phase3" /\ iteration < MAX_ITERATIONS
    /\ success' = TRUE
    /\ fpc' = "save"
    /\ fTurn' = NoTurn
    /\ UNCHANGED <<fLang, fInput, fCode, iteration, compile_iter, fOk, fOutput,
                   fFirstClean, fRepaired, fPatch>>

\* Phase 3, a turn in which a rule changes the text: continue
Phase3LocalFix ==
    /\ fpc = "phase3" /\ iteration < MAX_ITERATIONS
    /\ \E error_msg \in ToolchainErrors(fLang) :
          \E lf \in { try_local_fix(fCode, error_msg, fLang) } :
             /\ lf.fixed
             /\ fTurn' = Turn(fCode, lf, FALSE,
                              line_located(fCode, error_msg, fLang))
             /\ fCode' = lf.code
    /\ fRepaired' = TRUE
    /\ iteration' = iteration + 1
    /\ UNCHANGED <<fLang, fInput, fpc, compile_iter, fOk, success, fOutput,
                   fFirstClean, fPatch>>

\* a variant of Phase3NoContext in which the loop goes on to its next turn
Mut_Phase3NoContext_goes_on ==
    /\ fpc = "phase3" /\ iteration < MAX_ITERATIONS
    /\ \E error_msg \in ToolchainErrors(fLang) :
          /\ ~try_local_fix(fCode, error_msg, fLang).fixed
          /\ fTurn' = Turn(fCode, try_local_fix(fCode, error_msg, fLang), FALSE,
                           line_located(fCode, error_msg, fLang))
          /\ ~has_context(fCode, error_msg, fLang)
    /\ iteration' = iteration + 1
    /\ UNCHANGED <<fLang, fInput, fCode, fpc, compile_iter, fOk, success,
                   fOutput, fFirstClean, fRepaired, fPatch>>

\* Phase 3, a turn in which no rule changes the text and no context is found
Phase3NoContext ==
    /\ fpc = "phase3" /\ iteration < MAX_ITERATIONS
    /\ \E error_msg \in ToolchainErrors(fLang) :
          /\ ~try_local_fix(fCode, error_msg, fLang).fixed
          /\ fTurn' = Turn(fCode, try_local_fix(fCode, error_msg, fLang), FALSE,
                           line_located(fCode, error_msg, fLang))
          /\ ~has_context(fCode, error_msg, fLang)
    /\ fpc' = "save"
    /\ UNCHANGED <<fLang, fInput, fCode, iteration, compile_iter, fOk, success,
                   fOutput, fFirstClean, fRepaired, fPatch>>

\* Phase 3, a turn in which the oracle is asked and the text stays as it is:
\* no reply parses, or what it proposes changes nothing
Phase3OracleStops ==
    /\ fpc = "phase3" /\ iteration < MAX_ITERATIONS
    /\ \E error_msg \in ToolchainErrors(fLang), reply \in call_llm_for_fix(fLang) :
          /\ ~try_local_fix(fCode, error_msg, fLang).fixed
          /\ fTurn' = Turn(fCode, try_local_fix(fCode, error_msg, fLang), TRUE,
                           line_located(fCode, error_msg, fLang))
          /\ has_context(fCode, error_msg, fLang)
          /\ apply_replacements(fCode, reply) = fCode
    /\ fRepaired' = TRUE
    /\ fpc' = "save"
    /\ UNCHANGED <<fLang, fInput, fCode, iteration, compile_iter, fOk, success,
                   fOutput, fFirstClean, fPatch>>

\* Phase 3, a turn in which the oracle is asked and what it proposes changes
\* the text: code = new_code
Phase3OraclePatch ==
    /\ fpc = "phase3" /\ iteration < MAX_ITERATIONS
    /\ \E error_msg \in ToolchainErrors(fLang), reply \in call_llm_for_fix(fLang) :
          /\ ~try_local_fix(fCode, error_msg, fLang).fixed
          /\ fTurn' = Turn(fCode, try_local_fix(fCode, error_msg, fLang), TRUE,
                           line_located(fCode, error_msg, fLang))
          /\ has_context(fCode, error_msg, fLang)
          /\ \E new_code \in { apply_replacements(fCode, reply) } :
                /\ new_code # fCode
                /\ fCode' = new_code
                /\ fPatch' = Patch(fCode, new_code)
    /\ fRepaired' = TRUE
    /\ iteration' = iteration + 1
    /\ UNCHANGED <<fLang, fInput, fpc, compile_iter, fOk, success, fOutput,
                   fFirstClean>>

\* a variant of Phase3Exhausted that reports success when the turns are used up
Mut_Phase3Exhausted_success ==
    /\ fpc = "phase3" /\ iteration >= MAX_ITERATIONS
    /\ fpc' = "save"
    /\ success' = TRUE
    /\ fTurn' = NoTurn
    /\ UNCHANGED <<fLang, fInput, fCode, iteration, compile_iter, fOk,
                   fOutput, fFirstClean, fRepaired, fPatch>>

\* Phase 3, range(MAX_ITERATIONS) is used up
Phase3Exhausted ==
    /\ fpc = "phase3" /\ iteration >= MAX_ITERATIONS
    /\ fpc' = "save"
    /\ fTurn' = NoTurn
    /\ UNCHANGED <<fLang, fInput, fCode, iteration, compile_iter, fOk, success,
                   fOutput, fFirstClean, fRepaired, fPatch>>

\* a variant of SaveOutput that writes the text read from the input file
Mut_SaveOutput_writes_input ==
    /\ fpc = "save"
    /\ fOutput' = write_text(read_text(fInput))
    /\ fpc' = "done"
    /\ fTurn' = NoTurn
    /\ UNCHANGED <<fLang, fInput, fCode, iteration, compile_iter, fOk, success,
                   fFirstClean, fRepaired, fPatch>>

\* with open(output_file, 'w', encoding='utf-8') as f: f.write(code)
SaveOutput ==
    /\ fpc = "save"
    /\ fOutput' = write_text(fCode)
    /\ fpc' = "done"
    /\ fTurn' = NoTurn
    /\ UNCHANGED <<fLang, fInput, fCode, iteration, compile_iter, fOk, success,
                   fFirstClean, fRepaired, fPatch>>

(***************************************************************************)
(* auto_fix_multifile (src 3502-3670).  The files of the directory are the *)
(* nodes of the dependency graph.                                          *)
(***************************************************************************)
\* sorted_files = topological_sort(dep_graph)
RECURSIVE topological_sort(_, _, _)
topological_sort(g, v, r) ==
    IF Len(r) >= Cardinality(Nodes(g)) THEN r
    ELSE topological_sort(g, AddVisited(v, next_node(g, v)),
                          Append(r, next_node(g, v)))

\* source_files as glob gives them
glob_order(g) == [i \in 1..Cardinality(Nodes(g)) |-> i]

\* check_file_syntax (src 3684-3699): ok, or the errors of the toolchain
check_file_syntax(lang) ==
    { CheckResult(TRUE, << >>, << >>) }
    \cup { CheckResult(FALSE, e, << >>) : e \in ToolchainErrors(lang) }

\* the files the summary puts in files_to_recheck (src 3644-3651)
files_to_recheck(g, changed_files) ==
    { f \in Nodes(g) : /\ \E changed \in changed_files : changed \in g[f]
                       /\ f \notin changed_files }

\* the bytes of a file of the input directory
ProjectFiles(lang) ==
    IF lang = "python"
    THEN { Text("x = (1)\n"), Text("if x = 5:\n") }
    ELSE { Text("class A {\n}\n"), Text("class A {\nint x = 1\n}\n") }

\* what stands for a file that is not in the output directory
Absent == << "absent" >>

MultiIdle ==
    /\ mLang = "none"
    /\ mAnalyze = FALSE
    /\ mGraph = << >>
    /\ mInput = << >>
    /\ mOrder = << >>
    /\ mIdx = 0
    /\ mCode = << >>
    /\ mOrig = << >>
    /\ mIter = 0
    /\ mOutput = << >>
    /\ mChanged = {}
    /\ mRecheck = {}
    /\ mStale = {}
    /\ mTurn = NoTurn
    /\ mpc = "idle"

\* the file being worked on
CurrentFile == mOrder[mIdx]

\* the files that import f
Importers(f) == reverse_deps(mGraph, f)

\* if analyze_deps: source_files is put in the order of topological_sort
SortFiles ==
    /\ mpc = "start"
    /\ mOrder' = IF mAnalyze THEN topological_sort(mGraph, {}, << >>)
                 ELSE glob_order(mGraph)
    /\ mIdx' = 1
    /\ mpc' = "open"
    /\ mTurn' = NoTurn
    /\ UNCHANGED <<mLang, mAnalyze, mGraph, mInput, mCode, mOrig, mIter, mOutput,
                   mChanged, mRecheck, mStale>>

\* for i, filepath in enumerate(source_files): the file is read
OpenFile ==
    /\ mpc = "open"
    /\ mCode' = read_text(mInput[CurrentFile])
    /\ mOrig' = read_text(mInput[CurrentFile])
    /\ mIter' = 0
    /\ mpc' = "loop"
    /\ mTurn' = NoTurn
    /\ UNCHANGED <<mLang, mAnalyze, mGraph, mInput, mOrder, mIdx, mOutput,
                   mChanged, mRecheck, mStale>>

\* a turn of `for iteration in range(MAX_ITERATIONS)`: the check is clean
FileClean ==
    /\ mpc = "loop" /\ mIter < MAX_ITERATIONS
    /\ \E r \in check_file_syntax(mLang) : r.ok
    /\ mStale' = mStale \ { CurrentFile }
    /\ mpc' = "save"
    /\ mTurn' = NoTurn
    /\ UNCHANGED <<mLang, mAnalyze, mGraph, mInput, mOrder, mIdx, mCode, mOrig,
                   mIter, mOutput, mChanged, mRecheck>>

\* a turn in which a rule changes the text
FileLocalFix ==
    /\ mpc = "loop" /\ mIter < MAX_ITERATIONS
    /\ \E r \in check_file_syntax(mLang) :
          /\ ~r.ok
          /\ \E lf \in { try_local_fix(mCode, r.errors, mLang) } :
                /\ lf.fixed
                /\ mTurn' = Turn(mCode, lf, FALSE,
                                 line_located(mCode, r.errors, mLang))
                /\ mCode' = lf.code
    /\ mStale' = mStale \ { CurrentFile }
    /\ mIter' = mIter + 1
    /\ UNCHANGED <<mLang, mAnalyze, mGraph, mInput, mOrder, mIdx, mOrig, mOutput,
                   mChanged, mRecheck, mpc>>

\* a turn in which what the oracle proposes changes the text
FileOraclePatch ==
    /\ mpc = "loop" /\ mIter < MAX_ITERATIONS
    /\ \E r \in check_file_syntax(mLang), reply \in call_llm_for_fix(mLang) :
          /\ ~r.ok
          /\ ~try_local_fix(mCode, r.errors, mLang).fixed
          /\ has_context(mCode, r.errors, mLang)
          /\ mTurn' = Turn(mCode, try_local_fix(mCode, r.errors, mLang), TRUE,
                           line_located(mCode, r.errors, mLang))
          /\ \E new_code \in { apply_replacements(mCode, reply) } :
                /\ new_code # mCode
                /\ mCode' = new_code
    /\ mStale' = mStale \ { CurrentFile }
    /\ mIter' = mIter + 1
    /\ UNCHANGED <<mLang, mAnalyze, mGraph, mInput, mOrder, mIdx, mOrig, mOutput,
                   mChanged, mRecheck, mpc>>

\* a turn that ends the loop: no rule changes the text, and there is no
\* context, or no reply of the oracle, or what it proposes changes nothing
FileStop ==
    /\ mpc = "loop" /\ mIter < MAX_ITERATIONS
    /\ \E r \in check_file_syntax(mLang) :
          /\ ~r.ok
          /\ ~try_local_fix(mCode, r.errors, mLang).fixed
          /\ \/ /\ ~has_context(mCode, r.errors, mLang)
                /\ mTurn' = Turn(mCode, try_local_fix(mCode, r.errors, mLang), FALSE,
                                 line_located(mCode, r.errors, mLang))
             \/ /\ has_context(mCode, r.errors, mLang)
                /\ \E reply \in call_llm_for_fix(mLang) :
                      apply_replacements(mCode, reply) = mCode
                /\ mTurn' = Turn(mCode, try_local_fix(mCode, r.errors, mLang), TRUE,
                                 line_located(mCode, r.errors, mLang))
    /\ mStale' = mStale \ { CurrentFile }
    /\ mpc' = "save"
    /\ UNCHANGED <<mLang, mAnalyze, mGraph, mInput, mOrder, mIdx, mCode, mOrig,
                   mIter, mOutput, mChanged, mRecheck>>

\* range(MAX_ITERATIONS) is used up
FileExhausted ==
    /\ mpc = "loop" /\ mIter >= MAX_ITERATIONS
    /\ mpc' = "save"
    /\ mTurn' = NoTurn
    /\ UNCHANGED <<mLang, mAnalyze, mGraph, mInput, mOrder, mIdx, mCode, mOrig,
                   mIter, mOutput, mChanged, mRecheck, mStale>>

\* the file is written to the output directory and results[filename] is set;
\* from now on the files that import a file whose text changed are to be
\* checked again; the loop variable `iteration` is not read after the loop
SaveFile ==
    /\ mpc = "save"
    /\ mOutput' = [mOutput EXCEPT ![CurrentFile] = write_text(mCode)]
    /\ mChanged' = IF mCode # mOrig THEN mChanged \cup { CurrentFile } ELSE mChanged
    /\ mStale' = IF mCode # mOrig THEN mStale \cup Importers(CurrentFile) ELSE mStale
    /\ mIdx' = mIdx + 1
    /\ mIter' = 0
    /\ mpc' = IF mIdx + 1 > Len(mOrder) THEN "summary" ELSE "open"
    /\ mTurn' = NoTurn
    /\ UNCHANGED <<mLang, mAnalyze, mGraph, mInput, mOrder, mCode, mOrig, mRecheck>>

\* if analyze_deps and changed_files: files_to_recheck is built
Summary ==
    /\ mpc = "summary"
    /\ mRecheck' = IF mAnalyze /\ mChanged # {}
                   THEN files_to_recheck(mGraph, mChanged) ELSE {}
    /\ mpc' = "recheck"
    /\ mTurn' = NoTurn
    /\ UNCHANGED <<mLang, mAnalyze, mGraph, mInput, mOrder, mIdx, mCode, mOrig,
                   mIter, mOutput, mChanged, mStale>>

\* for filename in files_to_recheck: the written file is read and checked
RecheckFile ==
    /\ mpc = "recheck"
    /\ \E f \in mRecheck :
          /\ mCode' = read_text(mOutput[f])
          /\ mRecheck' = mRecheck \ { f }
          /\ mStale' = mStale \ { f }
    /\ mTurn' = NoTurn
    /\ UNCHANGED <<mLang, mAnalyze, mGraph, mInput, mOrder, mIdx, mOrig, mIter,
                   mOutput, mChanged, mpc>>

\* cleanup_container(); return True
MultiReturn ==
    /\ mpc = "recheck"
    /\ mRecheck = {}
    /\ mpc' = "done"
    /\ mTurn' = NoTurn
    /\ UNCHANGED <<mLang, mAnalyze, mGraph, mInput, mOrder, mIdx, mCode, mOrig,
                   mIter, mOutput, mChanged, mRecheck, mStale>>


(***************************************************************************)
(* run_in_container (src 2588-2605): a command sent to the container, with *)
(* restart_container_if_needed (src 2505-2511).                            *)
(***************************************************************************)
\* the value of the parameter lang: None ("none") where the callers leave it
\* out, or a language
SandboxLangs == { "none", "python", "java", "c", "cpp" }

\* the triple (ok, stdout, stderr) run_in_container returns, stdout left out
Returned(ok, stderr) == [ok |-> ok, stderr |-> stderr]

NotReturned == << >>

SandIdle ==
    /\ sLang = "none"
    /\ sRetry = FALSE
    /\ sRunning = FALSE
    /\ sAttempts = 0
    /\ sSetups = 0
    /\ sTimedOut = FALSE
    /\ sRet = NotReturned
    /\ spc = "idle"

\* subprocess.run(["docker", "exec", ...]) comes back with a return code:
\* 0 only from a running container
ExecCompletes ==
    /\ spc = "exec"
    /\ sAttempts' = sAttempts + 1
    /\ \E returncode \in (IF sRunning THEN { 0, 1 } ELSE { 1 }) :
          sRet' = Returned(returncode = 0,
                           IF returncode = 0 THEN "" ELSE "stderr of the command")
    /\ spc' = "done"
    /\ UNCHANGED <<sLang, sRetry, sRunning, sSetups, sTimedOut>>

\* except subprocess.TimeoutExpired: return False, "", "Command timed out"
ExecTimesOut ==
    /\ spc = "exec"
    /\ sAttempts' = sAttempts + 1
    /\ sTimedOut' = TRUE
    /\ sRet' = Returned(FALSE, "Command timed out")
    /\ spc' = "done"
    /\ UNCHANGED <<sLang, sRetry, sRunning, sSetups>>

\* except Exception as e, `if retry and lang` holds: the restart is next
ExecRaisesRetry ==
    /\ spc = "exec"
    /\ sRetry /\ sLang # "none"
    /\ sAttempts' = sAttempts + 1
    /\ spc' = "restart"
    /\ UNCHANGED <<sLang, sRetry, sRunning, sSetups, sTimedOut, sRet>>

\* except Exception as e, otherwise: return False, "", str(e)
ExecRaisesReturn ==
    /\ spc = "exec"
    /\ ~(sRetry /\ sLang # "none")
    /\ sAttempts' = sAttempts + 1
    /\ sRet' = Returned(FALSE, "str(e)")
    /\ spc' = "done"
    /\ UNCHANGED <<sLang, sRetry, sRunning, sSetups, sTimedOut>>

\* what check_container_running (src 2492-2502) may return: True only for a
\* running container, False also when `docker inspect` fails
check_container_running == IF sRunning THEN BOOLEAN ELSE { FALSE }

\* restart_container_if_needed finds the container running; then
\* return run_in_container(cmd, timeout, lang, retry=False)
RestartNotNeeded ==
    /\ spc = "restart"
    /\ TRUE \in check_container_running
    /\ sRetry' = FALSE
    /\ spc' = "exec"
    /\ UNCHANGED <<sLang, sRunning, sAttempts, sSetups, sTimedOut, sRet>>

\* restart_container_if_needed calls setup_container(lang), which makes a new
\* container; then return run_in_container(cmd, timeout, lang, retry=False)
RestartSetup ==
    /\ spc = "restart"
    /\ FALSE \in check_container_running
    /\ sSetups' = sSetups + 1
    /\ sRunning' = TRUE
    /\ sRetry' = FALSE
    /\ spc' = "exec"
    /\ UNCHANGED <<sLang, sAttempts, sTimedOut, sRet>>

\* setup_container(lang) raises RuntimeError (src 2517-2518, 2531-2532,
\* 2546-2547) inside the except clause: the call ends by that exception
RestartRaises ==
    /\ spc = "restart"
    /\ FALSE \in check_container_running
    /\ sSetups' = sSetups + 1
    /\ sRunning' \in { sRunning, FALSE }
    /\ spc' = "raised"
    /\ UNCHANGED <<sLang, sRetry, sAttempts, sTimedOut, sRet>>

(***************************************************************************)
(* The values json.loads gives: None, a bool, an int, a str, a list, a     *)
(* dict (the pairs in the order of the text).                              *)
(***************************************************************************)
JNull == [t |-> "null", v |-> << >>]

JBool(b) == [t |-> "bool", v |-> b]

JNum(n) == [t |-> "num", v |-> n]

JStr(s) == [t |-> "str", v |-> s]

JList(items) == [t |-> "list", v |-> items]

JDict(pairs) == [t |-> "dict", v |-> pairs]

\* bool(x) of Python
Truthy(x) ==
    CASE x.t = "null" -> FALSE
      [] x.t = "bool" -> x.v
      [] x.t = "num" -> x.v # 0
      [] OTHER -> x.v # << >>

\* d.get(key, default); of two pairs with one key json.loads keeps the last
dict_get(d, key, default) ==
    With({ i \in DOMAIN d.v : d.v[i].k = key }, LAMBDA found :
      IF found = {} THEN default ELSE d.v[Max(found)].v)

\* a value read from index i of a text up to index next - 1
Parsed(val, next) == [ok |-> TRUE, val |-> val, next |-> next]

NotParsed == [ok |-> FALSE, val |-> JNull, next |-> 0]

\* the index of the first character at or after i that is no white space
skip_ws(s, i) == IF i > Len(s) THEN Len(s) + 1 ELSE RunEnd(s, i, Space)

\* the JSON grammar json.loads reads, for texts whose strings hold no
\* backslash and whose numbers are digits only
RECURSIVE parse_value(_, _)
RECURSIVE parse_items(_, _, _)
RECURSIVE parse_members(_, _, _)
parse_value(s, from) ==
    With(skip_ws(s, from), LAMBDA i :
      IF i > Len(s) THEN NotParsed
      ELSE IF s[i] = "{" THEN parse_members(s, i + 1, << >>)
      ELSE IF s[i] = "[" THEN parse_items(s, i + 1, << >>)
      ELSE IF s[i] = "\""
      THEN With(FirstOf({ j \in (i + 1)..Len(s) : s[j] = "\"" }), LAMBDA j :
             IF j = 0 THEN NotParsed ELSE Parsed(JStr(SubSeq(s, i + 1, j - 1)), j + 1))
      ELSE IF s[i] \in Digit
      THEN With(RunEnd(s, i, Digit), LAMBDA j :
             IF s[i] = "0" /\ j > i + 1 THEN NotParsed
             ELSE Parsed(JNum(to_int(SubSeq(s, i, j - 1))), j))
      ELSE IF startswith(SubSeq(s, i, Len(s)), Text("true"))
      THEN Parsed(JBool(TRUE), i + 4)
      ELSE IF startswith(SubSeq(s, i, Len(s)), Text("false"))
      THEN Parsed(JBool(FALSE), i + 5)
      ELSE IF startswith(SubSeq(s, i, Len(s)), Text("null"))
      THEN Parsed(JNull, i + 4)
      ELSE NotParsed)

\* the items of a list after [ or after a comma
parse_items(s, from, acc) ==
    With(skip_ws(s, from), LAMBDA i :
      IF i > Len(s) THEN NotParsed
      ELSE IF s[i] = "]" /\ acc = << >> THEN Parsed(JList(<< >>), i + 1)
      ELSE With(parse_value(s, i), LAMBDA item :
        IF ~item.ok THEN NotParsed
        ELSE With(skip_ws(s, item.next), LAMBDA k :
          IF k > Len(s) THEN NotParsed
          ELSE IF s[k] = "," THEN parse_items(s, k + 1, Append(acc, item.val))
          ELSE IF s[k] = "]" THEN Parsed(JList(Append(acc, item.val)), k + 1)
          ELSE NotParsed)))

\* the pairs of a dict after { or after a comma
parse_members(s, from, acc) ==
    With(skip_ws(s, from), LAMBDA i :
      IF i > Len(s) THEN NotParsed
      ELSE IF s[i] = "}" /\ acc = << >> THEN Parsed(JDict(<< >>), i + 1)
      ELSE IF s[i] # "\"" THEN NotParsed
      ELSE With(parse_value(s, i), LAMBDA key :
        IF ~key.ok THEN NotParsed
        ELSE With(skip_ws(s, key.next), LAMBDA c :
          IF c > Len(s) \/ s[c] # ":" THEN NotParsed
          ELSE With(parse_value(s, c + 1), LAMBDA item :
            IF ~item.ok THEN NotParsed
            ELSE With(Append(acc, [k |-> key.val.v, v |-> item.val]), LAMBDA pairs :
                 With(skip_ws(s, item.next), LAMBDA k :
              IF k > Len(s) THEN NotParsed
              ELSE IF s[k] = "," THEN parse_members(s, k + 1, pairs)
              ELSE IF s[k] = "}" THEN Parsed(JDict(pairs), k + 1)
              ELSE NotParsed))))))

\* json.loads(s): the value when the whole of s is one value; a failure
\* stands for the exception json.loads raises
json_loads(s) ==
    With(parse_value(s, 1), LAMBDA p :
      IF p.ok /\ skip_ws(s, p.next) > Len(s) THEN p ELSE NotParsed)

(***************************************************************************)
(* extract_json (src 2336-2370) and try_parse_json (src 2373-2463).        *)
(***************************************************************************)
\* s.split(sep)[0]
before_sep(s, sep) ==
    With(str_find(s, sep), LAMBDA i : IF i = 0 THEN s ELSE SubSeq(s, 1, i - 1))

\* s.split(sep)[1] for a text s that holds sep
after_sep(s, sep) ==
    before_sep(SubSeq(s, str_find(s, sep) + Len(sep), Len(s)), sep)

\* re.sub(pat, repl, s)
re_sub(pat, repl, s) ==
    With(re_finditer(s, pat), LAMBDA ms :
      splice(s, ms, [i \in 1..Len(ms) |-> repl], 1))

\* the loop over enumerate(json_str) that keeps the first complete object:
\* the index of the first } at which as many } as { were read
first_object_end(s) ==
    FirstOf({ i \in 1..Len(s) :
                /\ s[i] = "}"
                /\ str_count(SubSeq(s, 1, i), "{") = str_count(SubSeq(s, 1, i), "}") })

\* the grave accent, a character that a TLA+ string cannot hold: in the
\* texts of the model it is written ^
Backtick == "^"

Fence == << Backtick, Backtick, Backtick >>

JsonFence == Fence \o Text("json")

extract_json(reply) ==
    With(IF contains(reply, JsonFence)
         THEN strip(before_sep(after_sep(reply, JsonFence), Fence))
         ELSE IF contains(reply, Fence)
         THEN strip(before_sep(after_sep(reply, Fence), Fence))
         ELSE IF "{" \in Range(reply)
         THEN With(FirstOf({ i \in 1..Len(reply) : reply[i] = "{" }), LAMBDA start :
              With({ i \in 1..Len(reply) : reply[i] = "}" }, LAMBDA closing :
                SubSeq(reply, start, IF closing = {} THEN 0 ELSE Max(closing))))
         ELSE strip(reply), LAMBDA found :
    With(re_sub(<< Lit(<< "," >>), Star(Space), Lit(<< "}" >>) >>, << "}" >>, found),
         LAMBDA s1 :
    With(re_sub(<< Lit(<< "," >>), Star(Space), Lit(<< "]" >>) >>, << "]" >>, s1),
         LAMBDA s2 :
    With(re_sub(<< Lit(<< "}" >>), Star(Space), Lit(<< "{" >>) >>, Text("},{"), s2),
         LAMBDA s3 :
    With(normalize_ws(s3), LAMBDA s4 :
      strip(IF startswith(s4, << "{" >>) /\ first_object_end(s4) > 0
            THEN SubSeq(s4, 1, first_object_end(s4)) ELSE s4))))))

\* the group of old_pattern or new_pattern (src 2406-2407) in json_str, for a
\* text without backslash; found is FALSE when the pattern is not there
field_by_pattern(json_str, key) ==
    With(re_search(json_str,
                   << Lit(<< "\"" >> \o key \o << "\"" >>), Star(Space),
                      Lit(<< ":" >>), Star(Space), Lit(<< "\"" >>),
                      Star(Range(json_str) \ { "\"" }), Lit(<< "\"" >>) >>),
         LAMBDA m :
      IF m = << >> THEN [found |-> FALSE, val |-> << >>]
      ELSE [found |-> TRUE, val |-> Group(json_str, m, 6)])

\* try_parse_json: method 1 (json.loads), method 2 (json.loads after the
\* single quotes are made double) and method 4 (the patterns of "old" and
\* "new"); None is JNull.  Methods 3 and 5 to 7 accept no text of Replies
\* that methods 1, 2 and 4 refuse.
try_parse_json(json_str) ==
    IF json_str = << >> THEN JNull
    ELSE IF json_loads(json_str).ok THEN json_loads(json_str).val
    ELSE
    With(str_replace(str_replace(str_replace(json_str, << "\r", NL >>, Text("\\n")),
                                 << NL >>, Text("\\n")),
                     << "'" >>, << "\"" >>), LAMBDA fixed :
    IF json_loads(fixed).ok THEN json_loads(fixed).val
    ELSE
    With(field_by_pattern(json_str, Text("old")), LAMBDA old_match :
    With(field_by_pattern(json_str, Text("new")), LAMBDA new_match :
    IF old_match.found /\ new_match.found
    THEN JDict(<< [k |-> Text("old"), v |-> JStr(old_match.val)],
                  [k |-> Text("new"), v |-> JStr(new_match.val)] >>)
    ELSE JNull)))

(***************************************************************************)
(* call_llm_for_fix (src 2914-2932) and the statements of a repair loop    *)
(* that follow it (src 3340-3349).                                         *)
(***************************************************************************)
\* max_retries (src 2914)
max_retries == 2

\* llm(prompt) raises an exception
LlmRaises == << "exception" >>

\* what the oracle may reply
Replies ==
    { Text("{\"old\": \"x = 1\", \"new\": \"x = 1;\"}"),
      JsonFence \o Text("\n{\"old\": \"x = 1\", \"new\": \"x = 1;\"}\n") \o Fence,
      Text("{\"old\": \"x = 1\", \"new\": \"x = 1;\",}"),
      Text("{'old': 'x = 1', 'new': 'x = 1;'}"),
      Text("{\"old\": \"x = 1\" \"new\": \"x = 1;\"}"),
      Text("{\"search\": \"x = 1\", \"replace\": \"x = 1;\"}"),
      Text("{\"old\": 5, \"new\": \"y\"}"),
      Text("5"), Text("\"ab\""), Text("[5]"), Text("true"),
      Text("[]"), Text("null"), Text("I cannot fix this") }

\* the texts under repair
OracleTexts == { Text("x = 1"), Text("y = 2") }

\* what apply_replacements did: it returned code, or it raised an exception
Applied(code) == [raised |-> FALSE, code |-> code]

Raised == [raised |-> TRUE, code |-> << >>]

\* the loop for r in replacements of apply_replacements on items of any
\* type: r.get raises AttributeError unless r is a dict, re.sub raises
\* TypeError unless old and new are str
RECURSIVE apply_items(_, _)
apply_items(code, items) ==
    IF items = << >> THEN Applied(code)
    ELSE IF items[1].t # "dict" THEN Raised
    ELSE With(dict_get(items[1], Text("old"),
                       dict_get(items[1], Text("search"), JStr(<< >>))), LAMBDA old :
         With(dict_get(items[1], Text("new"),
                       dict_get(items[1], Text("replace"), JStr(<< >>))), LAMBDA new :
           IF old.t # "str" \/ new.t # "str" THEN Raised
           ELSE apply_items(apply_replacement(code, [old |-> old.v, new |-> new.v]),
                            Tail(items))))

\* apply_replacements(code, replacements) for a value of any type: a list is
\* iterated, a str gives its characters, a dict its keys, and for raises
\* TypeError on None, a bool and an int
apply_replacements_any(code, replacements) ==
    CASE replacements.t = "list" -> apply_items(code, replacements.v)
      [] replacements.t = "str" ->
            apply_items(code, [i \in DOMAIN replacements.v |->
                                  JStr(<< replacements.v[i] >>)])
      [] replacements.t = "dict" ->
            apply_items(code, [i \in DOMAIN replacements.v |->
                                  JStr(replacements.v[i].k)])
      [] OTHER -> Raised

OracleIdle ==
    /\ oReplies = << >>
    /\ oCode = << >>
    /\ oCalls = 0
    /\ oRet = << >>
    /\ oOut = << >>
    /\ opc = "idle"

\* result = try_parse_json(extract_json(llm(prompt))) of the next call
NextResult == try_parse_json(extract_json(oReplies[oCalls + 1]))

\* a turn of for retry in range(max_retries) in which the reply parses to a
\* true value: a dict is returned in a list, any other value as it is
LlmCallReturns ==
    /\ opc = "ask" /\ oCalls < max_retries
    /\ oReplies[oCalls + 1] # LlmRaises
    /\ Truthy(NextResult)
    /\ oCalls' = oCalls + 1
    /\ oRet' = IF NextResult.t = "dict" THEN JList(<< NextResult >>) ELSE NextResult
    /\ opc' = "returned"
    /\ UNCHANGED <<oReplies, oCode, oOut>>

\* a turn in which llm raises, or the reply parses to nothing or to a false
\* value: the loop goes on
LlmCallFails ==
    /\ opc = "ask" /\ oCalls < max_retries
    /\ oReplies[oCalls + 1] = LlmRaises \/ ~Truthy(NextResult)
    /\ oCalls' = oCalls + 1
    /\ UNCHANGED <<oReplies, oCode, oRet, oOut, opc>>

\* return [] after the loop
ReturnEmpty ==
    /\ opc = "ask" /\ oCalls >= max_retries
    /\ oRet' = JList(<< >>)
    /\ opc' = "returned"
    /\ UNCHANGED <<oReplies, oCode, oCalls, oOut>>

\* a variant of LoopNoReplacements in which the loop goes on with an empty text
Mut_LoopNoReplacements_goes_on ==
    /\ opc = "returned" /\ ~Truthy(oRet)
    /\ oOut' = << >>
    /\ opc' = "continued"
    /\ UNCHANGED <<oReplies, oCode, oCalls, oRet>>

\* if not replacements: break
LoopNoReplacements ==
    /\ opc = "returned" /\ ~Truthy(oRet)
    /\ oOut' = oCode
    /\ opc' = "stopped"
    /\ UNCHANGED <<oReplies, oCode, oCalls, oRet>>

\* new_code = apply_replacements(code, replacements) returns: the loop ends
\* when the text is the same and goes on with new_code otherwise
LoopApplies ==
    /\ opc = "returned" /\ Truthy(oRet)
    /\ ~apply_replacements_any(oCode, oRet).raised
    /\ oOut' = apply_replacements_any(oCode, oRet).code
    /\ opc' = IF oOut' = oCode THEN "stopped" ELSE "continued"
    /\ UNCHANGED <<oReplies, oCode, oCalls, oRet>>

\* apply_replacements raises: nothing in the loop, in auto_fix or in its
\* caller catches the exception
LoopRaises ==
    /\ opc = "returned" /\ Truthy(oRet)
    /\ apply_replacements_any(oCode, oRet).raised
    /\ opc' = "raised"
    /\ UNCHANGED <<oReplies, oCode, oCalls, oRet, oOut>>

(***************************************************************************)
(* The fix-it hints of the C and C++ compilers: apply_fixits.              *)
(***************************************************************************)
\* an element of the list parse_gcc_fixits returns
Fixit(line_start, col_start, line_end, col_end, replacement) ==
    [line_start |-> line_start, col_start |-> col_start, line_end |-> line_end,
     col_end |-> col_end, replacement |-> replacement]

\* the slice s[:k] of Python: a negative k counts from the end
slice_to(s, k) ==
    IF k >= 0 THEN SubSeq(s, 1, Min({ k, Len(s) }))
    ELSE SubSeq(s, 1, Max({ Len(s) + k, 0 }))

\* the slice s[k:] of Python
slice_from(s, k) ==
    IF k >= 0 THEN SubSeq(s, Min({ k, Len(s) }) + 1, Len(s))
    ELSE SubSeq(s, Max({ Len(s) + k, 0 }) + 1, Len(s))

\* x comes before y in sorted(fixits, key=lambda x: (x[0], x[1]), reverse=True)
\* when its key is greater
KeyGreater(x, y) ==
    \/ x.line_start > y.line_start
    \/ x.line_start = y.line_start /\ x.col_start > y.col_start

\* sorted(..., reverse=True) is stable: hints with the same key stay in the
\* order of the list
RECURSIVE sorted_reverse(_)
sorted_reverse(fixits) ==
    IF fixits = << >> THEN << >>
    ELSE With(sorted_reverse(SubSeq(fixits, 1, Len(fixits) - 1)), LAMBDA done :
         With(fixits[Len(fixits)], LAMBDA x :
         With(Cardinality({ i \in 1..Len(done) : ~KeyGreater(x, done[i]) }), LAMBDA k :
           SubSeq(done, 1, k) \o << x >> \o SubSeq(done, k + 1, Len(done)))))

\* the body of the loop over fixits_sorted for one hint
apply_fixit(lines, f) ==
    IF f.line_start = f.line_end /\ 0 < f.line_start /\ f.line_start <= Len(lines)
    THEN With(lines[f.line_start], LAMBDA line :
           IF f.col_start <= Len(line) + 1 /\ f.col_end <= Len(line) + 1
           THEN [lines EXCEPT ![f.line_start] =
                    slice_to(line, f.col_start - 1) \o f.replacement
                    \o slice_from(line, f.col_end - 1)]
           ELSE lines)
    ELSE lines

RECURSIVE apply_sorted(_, _, _)
apply_sorted(lines, fixits_sorted, applied) ==
    IF fixits_sorted = << >> THEN [code |-> str_join(lines, NL), applied |-> applied]
    ELSE With(apply_fixit(lines, fixits_sorted[1]), LAMBDA new_lines :
           apply_sorted(new_lines, Tail(fixits_sorted), applied \/ new_lines # lines))

\* a variant of apply_fixits that takes the hints in the order of the list
Mut_apply_fixits_unsorted(code, fixits) ==
    IF fixits = << >> THEN [code |-> code, applied |-> FALSE]
    ELSE apply_sorted(str_split(code, NL), fixits, FALSE)

\* apply_fixits (src 447-472)
apply_fixits(code, fixits) ==
    IF fixits = << >> THEN [code |-> code, applied |-> FALSE]
    ELSE apply_sorted(str_split(code, NL), sorted_reverse(fixits), FALSE)

\* the texts and the hints apply_fixits is run on
FixitTexts == { Text("ab"), Text("ab\ncd") }

Fixits ==
    { Fixit(l1, c1, l2, c2, r) :
        l1 \in 1..2, c1 \in 0..MaxFixCol, l2 \in 1..2, c2 \in 0..MaxFixCol,
        r \in { << >>, << "Z" >> } }

FixitIdle ==
    /\ hCode = << >>
    /\ hFixits = << >>
    /\ hRes = << >>
    /\ hpc = "idle"

\* code, applied = apply_fixits(code, fixits)
ApplyFixits ==
    /\ hpc = "call"
    /\ hRes' = apply_fixits(hCode, hFixits)
    /\ hpc' = "done"
    /\ UNCHANGED <<hCode, hFixits>>

(***************************************************************************)
(* The prompt of call_llm_for_fix (src 2847-2912) and the context of       *)
(* extract_error_context (src 2714-2731) it is built from.                 *)
(***************************************************************************)
\* error_lines of extract_error_context: the line numbers the message names
error_lines_of(error_msg, lang) ==
    IF extract_all_error_lines(error_msg, lang) # {}
    THEN extract_all_error_lines(error_msg, lang)
    ELSE line_fallback(error_msg)

\* a line of the context: the marked prefix for a line the message names,
\* then the number, a colon, a space and the line of the text
context_line(lines, found, line_num) ==
    (IF line_num \in found THEN Text(">>> ") ELSE Text("    "))
    \o to_str(line_num) \o Text(": ") \o lines[line_num]

\* context of extract_error_context: the lines start + 1 .. end of the text,
\* each with its prefix; None (here the empty text) when no line is named
context(code, error_msg, lang) ==
    With(extract_error_context(code, error_msg, lang), LAMBDA c :
      IF c.line_num = 0 THEN << >>
      ELSE str_join([i \in 1..Max({ c.end - c.start, 0 }) |->
                       context_line(str_split(code, NL), error_lines_of(error_msg, lang),
                                    c.start + i)],
                    NL))

\* the value None of error_line_code
NoLineCode == << "None" >>

\* error_line_code (src 2851-2857): what follows the first colon, stripped,
\* in the first line of the context that starts with the number and a colon
error_line_code(context_text, line_num) ==
    IF line_num = 0 \/ context_text = << >> THEN NoLineCode
    ELSE With(str_split(context_text, NL), LAMBDA context_lines :
         With(FirstOf({ i \in 1..Len(context_lines) :
                          startswith(context_lines[i], to_str(line_num) \o << ":" >>) }),
              LAMBDA i :
           IF i = 0 THEN NoLineCode
           ELSE strip(SubSeq(context_lines[i], str_find(context_lines[i], << ":" >>) + 1,
                             Len(context_lines[i])))))

\* lang.upper()
upper(lang) ==
    CASE lang = "python" -> Text("PYTHON")
      [] lang = "java" -> Text("JAVA")
      [] lang = "c" -> Text("C")
      [] lang = "cpp" -> Text("CPP")

\* syntax_hints.get(lang, ''), each hint cut down to its first words
syntax_hints(lang) ==
    CASE lang = "python" -> Text("\n- Python: colon after if/for/while/def/class")
      [] lang = "java" -> Text("\n- Java: statements end with ;")
      [] lang = "c" -> Text("\n- C: statements end with ;")
      [] lang = "cpp" -> Text("\n- C++: statements end with ;")
      [] OTHER -> << >>

\* a variant of prompt that leaves the context out
Mut_prompt_without_context(error_msg, context_text, line_num, lang) ==
    Text("## ") \o upper(lang) \o Text(" syntax repair\n\n### Error\n")
    \o Fence \o << NL >> \o slice_to(error_msg, 400) \o << NL >> \o Fence
    \o Text("\n\n### Place\n- line: ") \o to_str(line_num)
    \o Text("\n- code: ") \o << Backtick >>
    \o (IF error_line_code(context_text, line_num) \in { NoLineCode, << >> }
        THEN Text("unknown") ELSE error_line_code(context_text, line_num))
    \o << Backtick >>
    \o Text("\n\n### Hints") \o syntax_hints(lang)
    \o Text("\n\n### Reply with one JSON object {\"old\": ..., \"new\": ...}")

\* prompt of call_llm_for_fix (src 2879-2912): the headings and the rules of
\* the template are cut down to a few words of English, the values put into
\* it are whole; line_num is at least 1 when there is a context
prompt(error_msg, context_text, line_num, lang) ==
    Text("## ") \o upper(lang) \o Text(" syntax repair\n\n### Error\n")
    \o Fence \o << NL >> \o slice_to(error_msg, 400) \o << NL >> \o Fence
    \o Text("\n\n### Place\n- line: ") \o to_str(line_num)
    \o Text("\n- code: ") \o << Backtick >>
    \o (IF error_line_code(context_text, line_num) \in { NoLineCode, << >> }
        THEN Text("unknown") ELSE error_line_code(context_text, line_num))
    \o << Backtick >>
    \o Text("\n\n### Context\n") \o Fence \o Text(lang) \o << NL >>
    \o context_text \o << NL >> \o Fence
    \o Text("\n\n### Hints") \o syntax_hints(lang)
    \o Text("\n\n### Reply with one JSON object {\"old\": ..., \"new\": ...}")

PromptLangs == { "python", "java" }

\* the messages the turn is run on: those of the rule engine, and one that
\* names a line after the end of every text
PromptMessages(lang) ==
    Diagnostics(lang)
    \cup { IF lang = "python" THEN PyTraceback(MaxRuleLines + 1)
           ELSE JavaSemicolon(MaxRuleLines + 1) }

PromptIdle ==
    /\ pLang = "none"
    /\ pCode = << >>
    /\ pMsg = << >>
    /\ pPrompt = << >>
    /\ ppc = "idle"

\* line_num, context = extract_error_context(code, error_msg, lang) gives a
\* context: call_llm_for_fix builds the prompt and sends it
AskWithContext ==
    /\ ppc = "call"
    /\ context(pCode, pMsg, pLang) # << >>
    /\ pPrompt' = prompt(pMsg, context(pCode, pMsg, pLang),
                         extract_error_context(pCode, pMsg, pLang).line_num, pLang)
    /\ ppc' = "asked"
    /\ UNCHANGED <<pLang, pCode, pMsg>>

\* there is no context: call_llm_for_fix is not called
NoContextNoPrompt ==
    /\ ppc = "call"
    /\ context(pCode, pMsg, pLang) = << >>
    /\ ppc' = "skipped"
    /\ UNCHANGED <<pLang, pCode, pMsg, pPrompt>>

(***************************************************************************)
(* The table of the modules of the project: scan_project_modules           *)
(* (src 1384-1421) and _PROJECT_MODULES_CACHE.                             *)
(***************************************************************************)
\* the files a project directory may hold, all in the directory itself
ModuleFiles ==
    { Text("step1_parsing.py"), Text("step1_lex.py"), Text("step1.py"), Text("_init.py") }

\* a table {short name: module path} as a set of pairs; modules[k] = v
SetItem(modules, k, v) == { e \in modules : e[1] # k } \cup { << k, v >> }

Keys(modules) == { e[1] : e \in modules }

\* the body of the loop `for f in files` for one file of the directory: the
\* module path of a file of the directory itself is its name without .py
scan_file(modules, f) ==
    IF endswith(f, Text(".py")) /\ ~startswith(f, << "_" >>)
    THEN With(SubSeq(f, 1, Len(f) - 3), LAMBDA module_name :
         With(SetItem(modules, module_name, module_name), LAMBDA with_name :
           IF "_" \in Range(module_name)
              /\ str_split(module_name, "_")[1] \notin Keys(with_name)
           THEN SetItem(with_name, str_split(module_name, "_")[1], module_name)
           ELSE with_name))
    ELSE modules

RECURSIVE scan_files(_, _)
scan_files(modules, files) ==
    IF files = << >> THEN modules
    ELSE scan_files(scan_file(modules, files[1]), Tail(files))

\* the orders in which os.walk may give the files of a directory
WalkOrders(disk) ==
    { files \in [1..Cardinality(disk) -> disk] :
        \A i, j \in 1..Cardinality(disk) : i # j => files[i] # files[j] }

\* the tables a scan of the directory may build: one for each order of the
\* files
scan_results(disk) == { scan_files({}, files) : files \in WalkOrders(disk) }

\* _PROJECT_MODULES_CACHE is modelled by the set of the tables it holds for
\* project_dir: none or one; kModules by the set of the tables returned to
\* the session: none or one
NoEntry == {}

NoTable == {}

CacheIdle ==
    /\ kDisk = {}
    /\ kCache = << >>
    /\ kModules = << >>
    /\ kSessions = 0
    /\ kpc = "idle"

\* scan_project_modules(project_dir) when project_dir is in the cache: the
\* table of the cache is returned
LookupCached ==
    /\ kpc = "start"
    /\ kCache # NoEntry
    /\ kModules' = kCache
    /\ kpc' = "looked"
    /\ UNCHANGED <<kDisk, kCache, kSessions>>

\* scan_project_modules(project_dir) when project_dir is not in the cache:
\* the directory is scanned, the table is stored and returned
LookupScans ==
    /\ kpc = "start"
    /\ kCache = NoEntry
    /\ \E modules \in scan_results(kDisk) :
         /\ kCache' = { modules }
         /\ kModules' = kCache'
    /\ kpc' = "looked"
    /\ UNCHANGED <<kDisk, kSessions>>

\* the session of a file ends; nothing is done to the cache
EndSession ==
    /\ kpc = "looked"
    /\ kpc' = "between"
    /\ UNCHANGED <<kDisk, kCache, kModules, kSessions>>

\* between two sessions files of the directory are added or removed
DirectoryChanges ==
    /\ kpc = "between"
    /\ kDisk' \in (SUBSET ModuleFiles) \ { kDisk }
    /\ UNCHANGED <<kCache, kModules, kSessions, kpc>>

\* the next session of the same process starts: an import-repair rule will
\* look a module up
StartSession ==
    /\ kpc = "between"
    /\ kSessions < MaxSessions
    /\ kSessions' = kSessions + 1
    /\ kModules' = NoTable
    /\ kpc' = "start"
    /\ UNCHANGED <<kDisk, kCache>>

(***************************************************************************)
(* The loops over a project: auto_fix_project (src 3839-4008) and          *)
(* auto_fix_with_stats (src 4175-4348) with FixStatistics (src 4013-4053). *)
(***************************************************************************)
\* the names of the files of the project, in the order of glob
ProjectNames(lang) ==
    IF lang = "python" THEN << Text("a.py"), Text("b.py") >>
    ELSE << Text("A.java"), Text("B.java") >>

\* input_dir
ProjectDir == Text("/p")

\* the characters of a path between quotes in a message
QuotedChar == PathChar \cup { "/", "<", ">", " ", "-" }

\* os.path.basename(filepath)
basename(filepath) ==
    With(str_split(filepath, "/"), LAMBDA parts : parts[Len(parts)])

\* an entry (filename, line_num, ...) of the lists of targets
Target(filename, line_num) == [filename |-> filename, line_num |-> line_num]

\* the loop over re.finditer(r'File "([^"]+)", line (\d+)', error_msg)
RECURSIVE python_targets(_, _, _)
python_targets(error_msg, matches, project_dir) ==
    IF matches = << >> THEN << >>
    ELSE With(Group(error_msg, matches[1], 2), LAMBDA filepath :
           (IF contains(filepath, project_dir) \/ ~startswith(filepath, << "/" >>)
            THEN << Target(basename(filepath),
                           to_int(Group(error_msg, matches[1], 4))) >>
            ELSE << >>)
           \o python_targets(error_msg, Tail(matches), project_dir))

\* parse_runtime_errors (src 3705-3744) for Python and Java.  For Java the
\* second loop (the frames `at x.y(File.java:n)`) adds nothing: what it
\* finds was found by the first loop, and it leaves out what is in the list.
parse_runtime_errors(error_msg, lang, project_dir) ==
    IF lang = "python"
    THEN python_targets(error_msg,
                        re_finditer(error_msg,
                                    << Lit(Text("File \"")), Plus(QuotedChar),
                                       Lit(Text("\", line ")), Plus(Digit) >>),
                        project_dir)
    ELSE With(re_finditer(error_msg, << Plus(WordChar), Lit(Text(".java")),
                                        Lit(<< ":" >>), Plus(Digit) >>), LAMBDA ms :
           [i \in 1..Len(ms) |->
              Target(Group(error_msg, ms[i], 1) \o Group(error_msg, ms[i], 2),
                     to_int(Group(error_msg, ms[i], 4)))])

\* the fallback of auto_fix_with_stats (src 4271-4277): the first file whose
\* name is in the message, at extract_line_num(errors) or 1
targets_by_name(errors, names) ==
    With(FirstOf({ i \in 1..Len(names) : contains(errors, names[i]) }), LAMBDA i :
      IF i = 0 THEN << >>
      ELSE << Target(names[i], IF extract_line_num(errors) # 0
                               THEN extract_line_num(errors) ELSE 1) >>)

\* error_targets of auto_fix_with_stats (src 4269-4277)
error_targets(errors, lang, names) ==
    With(parse_runtime_errors(errors, lang, ProjectDir), LAMBDA found :
      IF found # << >> THEN found ELSE targets_by_name(errors, names))

\* what the compilation of the project, or the check of its files, may print
\* when it fails
CompileErrors(lang) ==
    IF lang = "python"
    THEN { Text("  File \"/workspace/a.py\", line 1\nSyntaxError"),
           Text("  File \"b.py\", line 1\nSyntaxError"),
           Text("  File \"lib.py\", line 1\nSyntaxError"),
           Text("error: cannot read the file") }
    ELSE { ErrorLine("/workspace/A.java", 2, "';' expected"),
           ErrorLine("/workspace/B.java", 1, "reached end of file while parsing"),
           ErrorLine("/workspace/B.java", 2, "incompatible types"),
           ErrorLine("/workspace/C.java", 2, "';' expected"),
           Text("error: no source files") }

\* what a run of the project may print when it fails: the frames of a
\* traceback and its last line, cut short
RunErrors(lang) ==
    IF lang = "python"
    THEN { Text("  File \"/workspace/a.py\", line 1, in <module>\nNameError"),
           Text("  File \"/p/a.py\", line 1, in <module>\nNameError"),
           Text("  File \"<string>\", line 1\nSyntaxError") }
    ELSE { Text("\tat java.util.ArrayList.get(ArrayList.java:4)\n\tat A.main(A.java:2)"),
           Text("\tat A.main(A.java:2)"),
           Text("Error: no main class") }

\* STATS after reset() (src 4017-4028); the lists of the errors found before
\* and after the repair are not represented
NewStats ==
    [iterations |-> 0, local_fixes |-> 0, llm_calls |-> 0, fixed_errors |-> << >>,
     fix_methods |-> << >>]

\* fix_methods.get(method, 0) of the dict kept as a sequence of pairs
method_count(fix_methods, method) ==
    With({ i \in 1..Len(fix_methods) : fix_methods[i][1] = method }, LAMBDA at :
      IF at = {} THEN 0 ELSE fix_methods[CHOOSE i \in at : TRUE][2])

\* fix_methods[method] = count
set_method(fix_methods, method, count) ==
    IF \E i \in 1..Len(fix_methods) : fix_methods[i][1] = method
    THEN [i \in 1..Len(fix_methods) |->
            IF fix_methods[i][1] = method THEN << method, count >> ELSE fix_methods[i]]
    ELSE Append(fix_methods, << method, count >>)

\* a variant of add_fixed_error that does not count the method
Mut_add_fixed_error_no_method(stats, file, line, method) ==
    [stats EXCEPT !.fixed_errors = Append(@, [file |-> file, line |-> line,
                                               method |-> method])]

\* FixStatistics.add_fixed_error (src 4038-4053); the type of the error and
\* the list hard_to_find, which depend on the words of the message only, are
\* not represented
add_fixed_error(stats, file, line, method) ==
    [stats EXCEPT !.fixed_errors = Append(@, [file |-> file, line |-> line,
                                               method |-> method]),
                  !.fix_methods = set_method(@, method,
                                             method_count(@, method) + 1)]

\* max_iterations of auto_fix_with_stats (src 4246)
stats_max_iterations == 20

\* the default of max_iterations of auto_fix_project (src 3839)
project_max_iterations == 10

\* range(max_iterations), cut down to MaxTurns turns
max_iterations ==
    Min({ MaxTurns, IF qFunc = "auto_fix_with_stats" THEN stats_max_iterations
                    ELSE project_max_iterations })

\* the index of a file name in the project, 0 when it is not there
FileIndex(filename) ==
    FirstOf({ i \in 1..Len(ProjectNames(qLang)) : ProjectNames(qLang)[i] = filename })

ProjIdle ==
    /\ qFunc = "none"
    /\ qLang = "none"
    /\ qFiles = << >>
    /\ qIter = 0
    /\ qTotal = 0
    /\ qStats = << >>
    /\ qpc = "idle"

\* STATS.iterations = iteration + 1, the first statement of a turn of
\* auto_fix_with_stats; auto_fix_project has no STATS
Begun == IF qFunc = "auto_fix_with_stats"
         THEN [qStats EXCEPT !.iterations = qIter + 1] ELSE qStats

\* a turn in which the project compiles and, in auto_fix_project, runs: break
ProjectSuccess ==
    /\ qpc = "loop" /\ qIter < max_iterations
    /\ qStats' = Begun
    /\ qIter' = qIter + 1
    /\ qpc' = "save"
    /\ UNCHANGED <<qFunc, qLang, qFiles, qTotal>>

\* the messages of a failing turn with the stage that prints them:
\* auto_fix_with_stats compiles only
TurnErrors ==
    { << "compile", e >> : e \in CompileErrors(qLang) }
    \cup (IF qFunc = "auto_fix_project"
          THEN { << "run", e >> : e \in RunErrors(qLang) } ELSE {})

\* the targets of a failing turn
TurnTargets(errors) ==
    IF qFunc = "auto_fix_with_stats"
    THEN error_targets(errors, qLang, ProjectNames(qLang))
    ELSE parse_runtime_errors(errors, qLang, ProjectDir)

\* a turn in which no target is found in the message: break
ProjectNoTarget ==
    /\ qpc = "loop" /\ qIter < max_iterations
    /\ \E te \in TurnErrors : TurnTargets(te[2]) = << >>
    /\ qStats' = Begun
    /\ qIter' = qIter + 1
    /\ qpc' = "save"
    /\ UNCHANGED <<qFunc, qLang, qFiles, qTotal>>

\* a turn in which the first target is not a file of the project: continue
ProjectSkip ==
    /\ qpc = "loop" /\ qIter < max_iterations
    /\ \E te \in TurnErrors :
          /\ TurnTargets(te[2]) # << >>
          /\ FileIndex(TurnTargets(te[2])[1].filename) = 0
    /\ qStats' = Begun
    /\ qIter' = qIter + 1
    /\ UNCHANGED <<qFunc, qLang, qFiles, qTotal, qpc>>

\* whether the rule engine is tried and its result taken: after a failed
\* compilation, auto_fix_project on `fixed`, auto_fix_with_stats on
\* `fixed and new_code != code`
LocalFixTaken(stage, code, errors) ==
    /\ stage = "compile"
    /\ try_local_fix(code, errors, qLang).fixed
    /\ qFunc = "auto_fix_with_stats" => try_local_fix(code, errors, qLang).code # code

\* a turn in which the rule engine repairs the file of the first target:
\* continue
ProjectLocalFix ==
    /\ qpc = "loop" /\ qIter < max_iterations
    /\ \E te \in TurnErrors :
          /\ TurnTargets(te[2]) # << >>
          /\ \E target \in { TurnTargets(te[2])[1] } :
             \E i \in { FileIndex(target.filename) } \ { 0 } :
                /\ LocalFixTaken(te[1], qFiles[i], te[2])
                /\ qFiles' = [qFiles EXCEPT
                                ![i] = try_local_fix(qFiles[i], te[2], qLang).code]
                /\ qStats' = IF qFunc = "auto_fix_with_stats"
                             THEN add_fixed_error([Begun EXCEPT !.local_fixes = @ + 1],
                                                  target.filename, target.line_num,
                                                  "local_rule")
                             ELSE qStats
    /\ qTotal' = IF qFunc = "auto_fix_project" THEN qTotal + 1 ELSE qTotal
    /\ qIter' = qIter + 1
    /\ UNCHANGED <<qFunc, qLang, qpc>>

\* a turn in which the oracle is asked and what it proposes changes the file
\* of the first target: continue
ProjectOraclePatch ==
    /\ qpc = "loop" /\ qIter < max_iterations
    /\ \E te \in TurnErrors, reply \in call_llm_for_fix(qLang) :
          /\ TurnTargets(te[2]) # << >>
          /\ \E target \in { TurnTargets(te[2])[1] } :
             \E i \in { FileIndex(target.filename) } \ { 0 } :
                /\ ~LocalFixTaken(te[1], qFiles[i], te[2])
                /\ has_context(qFiles[i], te[2], qLang)
                /\ apply_replacements(qFiles[i], reply) # qFiles[i]
                /\ qFiles' = [qFiles EXCEPT ![i] = apply_replacements(qFiles[i], reply)]
                /\ qStats' = IF qFunc = "auto_fix_with_stats"
                             THEN add_fixed_error([Begun EXCEPT !.llm_calls = @ + 1],
                                                  target.filename, target.line_num,
                                                  "llm")
                             ELSE qStats
    /\ qTotal' = IF qFunc = "auto_fix_project" THEN qTotal + 1 ELSE qTotal
    /\ qIter' = qIter + 1
    /\ UNCHANGED <<qFunc, qLang, qpc>>

\* a turn in which the file of the first target is not repaired: no context,
\* no replacement, or a replacement that changes nothing: break
ProjectStop ==
    /\ qpc = "loop" /\ qIter < max_iterations
    /\ \E te \in TurnErrors, reply \in call_llm_for_fix(qLang) :
          /\ TurnTargets(te[2]) # << >>
          /\ \E i \in { FileIndex(TurnTargets(te[2])[1].filename) } \ { 0 } :
                /\ ~LocalFixTaken(te[1], qFiles[i], te[2])
                /\ \/ ~has_context(qFiles[i], te[2], qLang)
                   \/ apply_replacements(qFiles[i], reply) = qFiles[i]
    /\ qStats' = Begun
    /\ qIter' = qIter + 1
    /\ qpc' = "save"
    /\ UNCHANGED <<qFunc, qLang, qFiles, qTotal>>

\* range(max_iterations) is used up
ProjectExhausted ==
    /\ qpc = "loop" /\ qIter >= max_iterations
    /\ qpc' = "save"
    /\ UNCHANGED <<qFunc, qLang, qFiles, qIter, qTotal, qStats>>

(***************************************************************************)
(* try_local_fix (src 2776-2832) layer by layer, for the four languages.   *)
(***************************************************************************)
\* the letters A to Z and a to z in order
UpperLetters == Text("ABCDEFGHIJKLMNOPQRSTUVWXYZ")

LowerLetters == Text("abcdefghijklmnopqrstuvwxyz")

\* s.lower()
lower(s) ==
    [i \in 1..Len(s) |->
       IF s[i] \in Range(UpperLetters)
       THEN LowerLetters[CHOOSE k \in 1..Len(UpperLetters) : UpperLetters[k] = s[i]]
       ELSE s[i]]

\* the characters other than the double quote in the messages of the model
NotQuote == QuotedChar \cup { ";", ":", "'", "(", ")", "{", "}", "=", ",", "?", "\\" }

\* the loop of parse_gcc_fixits (src 426-444) over the matches of
\* fix-it:"[^"]+":\{(\d+):(\d+)-(\d+):(\d+)\}:"([^"]*)"
parse_gcc_fixits(error_output) ==
    With(re_finditer(error_output,
                     << Lit(Text("fix-it:\"")), Plus(NotQuote), Lit(Text("\":{")),
                        Plus(Digit), Lit(<< ":" >>), Plus(Digit), Lit(<< "-" >>),
                        Plus(Digit), Lit(<< ":" >>), Plus(Digit), Lit(Text("}:\"")),
                        Star(NotQuote), Lit(<< "\"" >>) >>), LAMBDA ms :
      [i \in 1..Len(ms) |->
         Fixit(to_int(Group(error_output, ms[i], 4)),
               to_int(Group(error_output, ms[i], 6)),
               to_int(Group(error_output, ms[i], 8)),
               to_int(Group(error_output, ms[i], 10)),
               str_replace(str_replace(Group(error_output, ms[i], 12),
                                       << "\\", "n" >>, << NL >>),
                           << "\\", "t" >>, << "\t" >>))])

\* try_fixit_suggestions (src 475-486)
try_fixit_suggestions(code, error_output, lang) ==
    IF lang \notin { "c", "cpp" } THEN [code |-> code, applied |-> FALSE]
    ELSE IF parse_gcc_fixits(error_output) # << >>
    THEN apply_fixits(code, parse_gcc_fixits(error_output))
    ELSE [code |-> code, applied |-> FALSE]

\* a text a helper may give back in place of the text it was given
OtherText == Text("int z;")

\* smart_symbol_replacement (src 507-540) is not translated: every pair
\* (text, flag) stands for what it may return, the text given or another
\* one, with the flag or without
SymbolReplacements(code) ==
    { [code |-> c, applied |-> a] : c \in { code, OtherText }, a \in BOOLEAN }

\* fix_single_colon (src 689-713) and the transforms of the rules of C and
\* C++ are not translated: they return the text given or another one
HelperTexts(code) == { code, OtherText }

\* the text and the message of a call, for each language
LayerTexts(lang) ==
    IF lang \in { "c", "cpp" } THEN { Text("int x = 1\nint y;"), Text("int y;") }
    ELSE RuleTexts(lang)

LayerMessages(lang) ==
    CASE lang = "python" -> { PyTraceback(1), PyCannotAssign(1), PyUndefinedName(1) }
      [] lang = "java" ->
            { JavaSemicolon(2), JavaBefore(2), JavaTypes(1),
              JavaSemicolon(2) \o << NL >> \o JavaTypes(1) }
      [] OTHER ->
            { Text("a.c:2:1: error: expected ';' before 'int'\nfix-it:\"a.c\":{1:10-1:10}:\";\""),
              Text("a.c:2:1: error: expected ';' before 'int'"),
              Text("a.c:3:1: error: expected ';'\nfix-it:\"a.c\":{3:1-3:1}:\";\""),
              Text("a.c:1:5: error: 'z' undeclared; Did you mean 'y'?"),
              Text("a.c:1:2: error: found ':' in nested-name-specifier"),
              Text("a.c:1:1: error: unknown type name 'itn'") }

\* nothing returned yet
NoReturn == << >>

LayerIdle ==
    /\ yLang = "none"
    /\ yCode = << >>
    /\ yMsg = << >>
    /\ yCur = << >>
    /\ yFixed = FALSE
    /\ yRet = NoReturn
    /\ ypc = "idle"

\* layer 1 (src 2781-2786): the fix-it hints of the compiler, C and C++ only
Layer1Fixit ==
    /\ ypc = "layer1"
    /\ \E r \in { try_fixit_suggestions(yCur, yMsg, yLang) } :
          IF yLang \in { "c", "cpp" } /\ r.applied
          THEN yCur' = r.code /\ yFixed' = TRUE
          ELSE UNCHANGED <<yCur, yFixed>>
    /\ ypc' = "layer2"
    /\ UNCHANGED <<yLang, yCode, yMsg, yRet>>

\* layer 2 (src 2788-2795): the `did you mean` of the compiler; the list of
\* suggestions may be empty
Layer2Suggestion ==
    /\ ypc = "layer2"
    /\ IF yLang \in { "c", "cpp" } /\ contains(lower(yMsg), Text("did you mean"))
       THEN \E suggestions \in BOOLEAN, r \in SymbolReplacements(yCur) :
               IF suggestions /\ r.applied
               THEN yCur' = r.code /\ yFixed' = TRUE
               ELSE UNCHANGED <<yCur, yFixed>>
       ELSE UNCHANGED <<yCur, yFixed>>
    /\ ypc' = "layer3"
    /\ UNCHANGED <<yLang, yCode, yMsg, yRet>>

\* layer 3 (src 2797-2802): the single colon; returns when the text changes
Layer3SingleColon ==
    /\ ypc = "layer3"
    /\ IF /\ yLang \in { "cpp", "c" }
          /\ contains(yMsg, Text("found ':' in nested-name-specifier"))
       THEN \E new_code \in HelperTexts(yCur) :
               IF new_code # yCur
               THEN yRet' = LocalFix(new_code, TRUE) /\ ypc' = "done"
               ELSE yRet' = yRet /\ ypc' = "layer4"
       ELSE yRet' = yRet /\ ypc' = "layer4"
    /\ UNCHANGED <<yLang, yCode, yMsg, yCur, yFixed>>

\* layer 4 (src 2804-2808): the semicolon of the line before; returns when
\* the text changes
Layer4SemicolonBefore ==
    /\ ypc = "layer4"
    /\ IF yLang \in { "cpp", "c", "java" } /\ contains(yMsg, Text("before '"))
       THEN \E new_code \in { fix_semicolon_before(yCur, yMsg) } :
               IF new_code # yCur
               THEN yRet' = LocalFix(new_code, TRUE) /\ ypc' = "done"
               ELSE yRet' = yRet /\ ypc' = "layer5"
       ELSE yRet' = yRet /\ ypc' = "layer5"
    /\ UNCHANGED <<yLang, yCode, yMsg, yCur, yFixed>>

\* layer 5 (src 2810-2832): the rules, then `return code, fixed_any`.  For C
\* and C++ a rule that matches a line with 'error:' gives the text back or
\* another one.
Layer5Rules ==
    /\ ypc = "layer5"
    /\ IF yLang \in { "python", "java" }
       THEN yRet' = rule_pass(LOCAL_FIX_RULES(yLang), str_split(yMsg, NL),
                              LocalFix(yCur, yFixed))
       ELSE \E new_code \in IF contains(yMsg, Text("error:"))
                            THEN HelperTexts(yCur) ELSE { yCur } :
               yRet' = LocalFix(new_code, yFixed \/ new_code # yCur)
    /\ ypc' = "done"
    /\ UNCHANGED <<yLang, yCode, yMsg, yCur, yFixed>>
(***************************************************************************)
(* The specifications.  Each runs one part of the program and leaves the   *)
(* variables of the other parts as they are.                               *)
(***************************************************************************)
\* a call of safe_apply_fix on a pair of texts
ValidatorInit ==
    /\ vLang \in Langs
    /\ \E p \in ValidatorPairs(vLang) : vOrig = p[1] /\ vFixed = p[2]
    /\ vRes = << >>
    /\ vpc = "call"
    /\ TopoIdle /\ ApplIdle /\ RuleIdle /\ FixIdle /\ MultiIdle /\ SandIdle /\ OracleIdle /\ FixitIdle /\ PromptIdle /\ CacheIdle /\ ProjIdle /\ LayerIdle

ValidatorNext ==
    SafeApplyFix /\ UNCHANGED <<topoVars, applVars, ruleVars, fixVars, multiVars, sandVars, oracleVars, fixitVars, promptVars, cacheVars, projVars, layerVars>>

SpecValidator == ValidatorInit /\ [][ValidatorNext]_vars

\* a call of topological_sort: visited = set(), result = []
SortInit ==
    /\ graph \in DependencyGraphs(MaxNodes) \cup SingleImportGraphs(MaxNodes + 1)
    /\ graphIn = graph
    /\ visited = {}
    /\ result = << >>
    /\ tpc = "loop"
    /\ ValIdle /\ ApplIdle /\ RuleIdle /\ FixIdle /\ MultiIdle /\ SandIdle /\ OracleIdle /\ FixitIdle /\ PromptIdle /\ CacheIdle /\ ProjIdle /\ LayerIdle

SortNext ==
    \/ TopoStep /\ UNCHANGED <<valVars, applVars, ruleVars, fixVars, multiVars, sandVars, oracleVars, fixitVars, promptVars, cacheVars, projVars, layerVars>>
    \/ TopoReturn /\ UNCHANGED <<valVars, applVars, ruleVars, fixVars, multiVars, sandVars, oracleVars, fixitVars, promptVars, cacheVars, projVars, layerVars>>

SpecTopo == SortInit /\ [][SortNext]_vars

\* the while loop of topological_sort goes on as long as its condition holds
FairSpecTopo == SortInit /\ [][SortNext]_vars /\ WF_vars(SortNext)

\* a call of apply_replacements on a text and a list of candidates
ApplierInit ==
    /\ aCode \in ApplierTexts
    /\ aRepl \in SeqsUpTo(Candidates, MaxRepl)
    /\ aOut = << >>
    /\ apc = "call"
    /\ ValIdle /\ TopoIdle /\ RuleIdle /\ FixIdle /\ MultiIdle /\ SandIdle /\ OracleIdle /\ FixitIdle /\ PromptIdle /\ CacheIdle /\ ProjIdle /\ LayerIdle

ApplierNext ==
    ApplyReplacements /\ UNCHANGED <<valVars, topoVars, ruleVars, fixVars, multiVars, sandVars, oracleVars, fixitVars, promptVars, cacheVars, projVars, layerVars>>

SpecApplier == ApplierInit /\ [][ApplierNext]_vars

\* a call of try_local_fix on a text and a message of the toolchain
RulesInit ==
    /\ rLang \in RuleLangs
    /\ rCode \in RuleTexts(rLang)
    /\ rMsg \in Diagnostics(rLang)
    /\ rRes = << >>
    /\ rpc = "call"
    /\ ValIdle /\ TopoIdle /\ ApplIdle /\ FixIdle /\ MultiIdle /\ SandIdle /\ OracleIdle /\ FixitIdle /\ PromptIdle /\ CacheIdle /\ ProjIdle /\ LayerIdle

RulesNext ==
    TryLocalFix /\ UNCHANGED <<valVars, topoVars, applVars, fixVars, multiVars, sandVars, oracleVars, fixitVars, promptVars, cacheVars, projVars, layerVars>>

SpecRules == RulesInit /\ [][RulesNext]_vars

\* a call of auto_fix on an input file
AutoFixInit ==
    /\ fLang \in FixLangs
    /\ fInput \in InputFiles(fLang)
    /\ fCode = << >>
    /\ fpc = "read"
    /\ iteration = 0
    /\ compile_iter = 0
    /\ fOk = FALSE
    /\ success = FALSE
    /\ fOutput = << >>
    /\ fFirstClean = FALSE
    /\ fRepaired = FALSE
    /\ fPatch = NoPatch
    /\ fTurn = NoTurn
    /\ ValIdle /\ TopoIdle /\ ApplIdle /\ RuleIdle /\ MultiIdle /\ SandIdle /\ OracleIdle /\ FixitIdle /\ PromptIdle /\ CacheIdle /\ ProjIdle /\ LayerIdle

\* the variables of the other parts
NotAutoFix == <<valVars, topoVars, applVars, ruleVars, multiVars, sandVars, oracleVars, fixitVars, promptVars, cacheVars, projVars, layerVars>>

AutoFixNext ==
    \/ ReadInput /\ UNCHANGED NotAutoFix
    \/ Phase1Clean /\ UNCHANGED NotAutoFix
    \/ Phase1LocalFix /\ UNCHANGED NotAutoFix
    \/ Phase1NoFix /\ UNCHANGED NotAutoFix
    \/ Phase2Compile /\ UNCHANGED NotAutoFix
    \/ Phase2LocalFix /\ UNCHANGED NotAutoFix
    \/ Phase2NoContext /\ UNCHANGED NotAutoFix
    \/ Phase2Oracle /\ UNCHANGED NotAutoFix
    \/ Phase2Exit /\ UNCHANGED NotAutoFix
    \/ Phase3CompileFails /\ UNCHANGED NotAutoFix
    \/ Phase3Success /\ UNCHANGED NotAutoFix
    \/ Phase3LocalFix /\ UNCHANGED NotAutoFix
    \/ Phase3NoContext /\ UNCHANGED NotAutoFix
    \/ Phase3OracleStops /\ UNCHANGED NotAutoFix
    \/ Phase3OraclePatch /\ UNCHANGED NotAutoFix
    \/ Phase3Exhausted /\ UNCHANGED NotAutoFix
    \/ SaveOutput /\ UNCHANGED NotAutoFix

SpecAutoFix == AutoFixInit /\ [][AutoFixNext]_vars

\* a call of auto_fix_multifile on a directory
MultifileInit ==
    /\ mLang \in FixLangs
    /\ mAnalyze \in BOOLEAN
    /\ mGraph \in DependencyGraphs(MaxFiles)
    /\ mInput \in [Nodes(mGraph) -> ProjectFiles(mLang)]
    /\ mOrder = << >>
    /\ mIdx = 0
    /\ mCode = << >>
    /\ mOrig = << >>
    /\ mIter = 0
    /\ mOutput = [f \in Nodes(mGraph) |-> Absent]
    /\ mChanged = {}
    /\ mRecheck = {}
    /\ mStale = {}
    /\ mTurn = NoTurn
    /\ mpc = "start"
    /\ ValIdle /\ TopoIdle /\ ApplIdle /\ RuleIdle /\ FixIdle /\ SandIdle /\ OracleIdle /\ FixitIdle /\ PromptIdle /\ CacheIdle /\ ProjIdle /\ LayerIdle

\* the variables of the other parts
NotMultifile == <<valVars, topoVars, applVars, ruleVars, fixVars, sandVars, oracleVars, fixitVars, promptVars, cacheVars, projVars, layerVars>>

MultifileNext ==
    \/ SortFiles /\ UNCHANGED NotMultifile
    \/ OpenFile /\ UNCHANGED NotMultifile
    \/ FileClean /\ UNCHANGED NotMultifile
    \/ FileLocalFix /\ UNCHANGED NotMultifile
    \/ FileOraclePatch /\ UNCHANGED NotMultifile
    \/ FileStop /\ UNCHANGED NotMultifile
    \/ FileExhausted /\ UNCHANGED NotMultifile
    \/ SaveFile /\ UNCHANGED NotMultifile
    \/ Summary /\ UNCHANGED NotMultifile
    \/ RecheckFile /\ UNCHANGED NotMultifile
    \/ MultiReturn /\ UNCHANGED NotMultifile

SpecMultifile == MultifileInit /\ [][MultifileNext]_vars


\* a repair session: a call of auto_fix on a file, or a call of
\* auto_fix_multifile on a directory
SessionInit == AutoFixInit \/ MultifileInit

SessionNext == AutoFixNext \/ MultifileNext

SpecSessions == SessionInit /\ [][SessionNext]_vars

\* a call of run_in_container: the callers of the program leave lang out and
\* retry at its default
SandboxInit ==
    /\ sLang \in SandboxLangs
    /\ sRetry \in BOOLEAN
    /\ sRunning \in BOOLEAN
    /\ sAttempts = 0
    /\ sSetups = 0
    /\ sTimedOut = FALSE
    /\ sRet = NotReturned
    /\ spc = "exec"
    /\ ValIdle /\ TopoIdle /\ ApplIdle /\ RuleIdle /\ FixIdle /\ MultiIdle /\ OracleIdle /\ FixitIdle /\ PromptIdle /\ CacheIdle /\ ProjIdle /\ LayerIdle

\* the variables of the other parts
NotSandbox == <<valVars, topoVars, applVars, ruleVars, fixVars, multiVars, oracleVars, fixitVars, promptVars, cacheVars, projVars, layerVars>>

SandboxNext ==
    \/ ExecCompletes /\ UNCHANGED NotSandbox
    \/ ExecTimesOut /\ UNCHANGED NotSandbox
    \/ ExecRaisesRetry /\ UNCHANGED NotSandbox
    \/ ExecRaisesReturn /\ UNCHANGED NotSandbox
    \/ RestartNotNeeded /\ UNCHANGED NotSandbox
    \/ RestartSetup /\ UNCHANGED NotSandbox
    \/ RestartRaises /\ UNCHANGED NotSandbox

SpecSandbox == SandboxInit /\ [][SandboxNext]_vars

\* a turn of a repair loop from the call of call_llm_for_fix on: the oracle
\* is asked at most max_retries times, each call raises or gives a reply
OracleInit ==
    /\ oReplies \in [1..max_retries -> Replies \cup { LlmRaises }]
    /\ oCode \in OracleTexts
    /\ oCalls = 0
    /\ oRet = << >>
    /\ oOut = << >>
    /\ opc = "ask"
    /\ ValIdle /\ TopoIdle /\ ApplIdle /\ RuleIdle /\ FixIdle /\ MultiIdle /\ SandIdle /\ FixitIdle /\ PromptIdle /\ CacheIdle /\ ProjIdle /\ LayerIdle

\* the variables of the other parts
NotOracle == <<valVars, topoVars, applVars, ruleVars, fixVars, multiVars, sandVars, fixitVars, promptVars, cacheVars, projVars, layerVars>>

OracleNext ==
    \/ LlmCallReturns /\ UNCHANGED NotOracle
    \/ LlmCallFails /\ UNCHANGED NotOracle
    \/ ReturnEmpty /\ UNCHANGED NotOracle
    \/ LoopNoReplacements /\ UNCHANGED NotOracle
    \/ LoopApplies /\ UNCHANGED NotOracle
    \/ LoopRaises /\ UNCHANGED NotOracle

SpecOracle == OracleInit /\ [][OracleNext]_vars


\* one call of apply_fixits on a list of at most MaxFixits hints
FixitInit ==
    /\ hCode \in FixitTexts
    /\ hFixits \in SeqsUpTo(Fixits, MaxFixits)
    /\ hRes = << >>
    /\ hpc = "call"
    /\ ValIdle /\ TopoIdle /\ ApplIdle /\ RuleIdle /\ FixIdle /\ MultiIdle /\ SandIdle /\ OracleIdle /\ PromptIdle /\ CacheIdle /\ ProjIdle /\ LayerIdle

FixitNext ==
    ApplyFixits /\ UNCHANGED <<valVars, topoVars, applVars, ruleVars, fixVars, multiVars, sandVars, oracleVars, promptVars, cacheVars, projVars, layerVars>>

SpecFixits == FixitInit /\ [][FixitNext]_vars


\* the part of a turn of a repair loop from extract_error_context to the
\* prompt sent to the oracle
PromptInit ==
    /\ pLang \in PromptLangs
    /\ pCode \in RuleTexts(pLang)
    /\ pMsg \in PromptMessages(pLang)
    /\ pPrompt = << >>
    /\ ppc = "call"
    /\ ValIdle /\ TopoIdle /\ ApplIdle /\ RuleIdle /\ FixIdle /\ MultiIdle /\ SandIdle /\ OracleIdle /\ FixitIdle /\ CacheIdle /\ ProjIdle /\ LayerIdle

NotPrompt == <<valVars, topoVars, applVars, ruleVars, fixVars, multiVars, sandVars, oracleVars, fixitVars, cacheVars, projVars, layerVars>>

PromptNext ==
    \/ AskWithContext /\ UNCHANGED NotPrompt
    \/ NoContextNoPrompt /\ UNCHANGED NotPrompt

SpecPrompt == PromptInit /\ [][PromptNext]_vars


\* the sessions of one process that look modules of one project directory
\* up: the module is loaded (the cache is the empty dict), the first session
\* starts
CacheInit ==
    /\ kDisk \in SUBSET ModuleFiles
    /\ kCache = NoEntry
    /\ kModules = NoTable
    /\ kSessions = 1
    /\ kpc = "start"
    /\ ValIdle /\ TopoIdle /\ ApplIdle /\ RuleIdle /\ FixIdle /\ MultiIdle /\ SandIdle /\ OracleIdle /\ FixitIdle /\ PromptIdle /\ ProjIdle /\ LayerIdle

NotCache == <<valVars, topoVars, applVars, ruleVars, fixVars, multiVars, sandVars, oracleVars, fixitVars, promptVars, projVars, layerVars>>

CacheNext ==
    \/ LookupCached /\ UNCHANGED NotCache
    \/ LookupScans /\ UNCHANGED NotCache
    \/ EndSession /\ UNCHANGED NotCache
    \/ DirectoryChanges /\ UNCHANGED NotCache
    \/ StartSession /\ UNCHANGED NotCache

SpecCache == CacheInit /\ [][CacheNext]_vars


\* auto_fix_project or auto_fix_with_stats on a directory of two files, when
\* its loop starts
ProjectInit ==
    /\ qFunc \in { "auto_fix_project", "auto_fix_with_stats" }
    /\ qLang \in FixLangs
    /\ qFiles \in [1..Len(ProjectNames(qLang)) -> ProjectFiles(qLang)]
    /\ qIter = 0
    /\ qTotal = 0
    /\ qStats = IF qFunc = "auto_fix_with_stats" THEN NewStats ELSE << >>
    /\ qpc = "loop"
    /\ ValIdle /\ TopoIdle /\ ApplIdle /\ RuleIdle /\ FixIdle /\ MultiIdle /\ SandIdle /\ OracleIdle /\ FixitIdle /\ PromptIdle /\ CacheIdle /\ LayerIdle

NotProject == <<valVars, topoVars, applVars, ruleVars, fixVars, multiVars, sandVars, oracleVars, fixitVars, promptVars, cacheVars, layerVars>>

ProjectNext ==
    \/ ProjectSuccess /\ UNCHANGED NotProject
    \/ ProjectNoTarget /\ UNCHANGED NotProject
    \/ ProjectSkip /\ UNCHANGED NotProject
    \/ ProjectLocalFix /\ UNCHANGED NotProject
    \/ ProjectOraclePatch /\ UNCHANGED NotProject
    \/ ProjectStop /\ UNCHANGED NotProject
    \/ ProjectExhausted /\ UNCHANGED NotProject

SpecProject == ProjectInit /\ [][ProjectNext]_vars


\* a call of try_local_fix
LayerInit ==
    /\ yLang \in Langs
    /\ yCode \in LayerTexts(yLang)
    /\ yMsg \in LayerMessages(yLang)
    /\ yCur = yCode
    /\ yFixed = FALSE
    /\ yRet = NoReturn
    /\ ypc = "layer1"
    /\ ValIdle /\ TopoIdle /\ ApplIdle /\ RuleIdle /\ FixIdle /\ MultiIdle /\ SandIdle /\ OracleIdle /\ FixitIdle /\ PromptIdle /\ CacheIdle /\ ProjIdle

NotLayer == <<valVars, topoVars, applVars, ruleVars, fixVars, multiVars, sandVars, oracleVars, fixitVars, promptVars, cacheVars, projVars>>

LayerNext ==
    \/ Layer1Fixit /\ UNCHANGED NotLayer
    \/ Layer2Suggestion /\ UNCHANGED NotLayer
    \/ Layer3SingleColon /\ UNCHANGED NotLayer
    \/ Layer4SemicolonBefore /\ UNCHANGED NotLayer
    \/ Layer5Rules /\ UNCHANGED NotLayer

SpecLayers == LayerInit /\ [][LayerNext]_vars
(***************************************************************************)
(* The claims about topological_sort.                                      *)
(***************************************************************************)
\* the position of node n in the returned list (0 when absent)
PosIn(s, n) == IF \E i \in 1..Len(s) : s[i] = n
               THEN CHOOSE i \in 1..Len(s) : s[i] = n
               ELSE 0

\* g has a cycle iff no order of its nodes puts every dependency first,
\* computed by removing nodes without remaining dependencies
RECURSIVE Peel(_, _)
Peel(g, left) ==
    LET free == { n \in left : g[n] \cap left = {} }
    IN  IF free = {} THEN left ELSE Peel(g, left \ free)

Acyclic(g) == Peel(g, Nodes(g)) = {}

\* C5: for an acyclic graph, in the returned order every node comes
\* strictly after every node it depends on.
C5_DependencyOrder ==
    (tpc = "done" /\ Acyclic(graph)) =>
        \A n \in Nodes(graph) : \A d \in graph[n] :
            /\ PosIn(result, d) > 0
            /\ PosIn(result, d) < PosIn(result, n)

\* witness of C5: a finished sort of an acyclic graph with a chain of
\* two dependencies
C5_Witness ==
    /\ tpc = "done"
    /\ Acyclic(graph)
    /\ \E a, b, c \in Nodes(graph) : b \in graph[a] /\ c \in graph[b]

\* C6: for every graph, cyclic ones included, the sort terminates, the
\* result holds every node exactly once, and the graph is left unchanged.
C6_Permutation ==
    /\ [](tpc = "done" =>
            /\ Len(result) = Cardinality(Nodes(graph))
            /\ Range(result) = Nodes(graph))
    /\ [](graph = graphIn)
    /\ <>(tpc = "done")

\* witness of C6: a finished sort of a graph with a cycle
C6_Witness ==
    /\ tpc = "done"
    /\ ~Acyclic(graph)
    /\ Len(result) = Cardinality(Nodes(graph))

(***************************************************************************)
(* The claims about validate_fix_semantics and safe_apply_fix.             *)
(***************************************************************************)
\* a bracket family is balanced in a text: as many opening as closing ones
Balanced(code, b) == count_brackets(code)[b][1] = count_brackets(code)[b][2]

\* the pairs (original, patched) that the call's validations accepted
AcceptedPairs ==
    (IF vRes.first.ok THEN { << vOrig, vFixed >> } ELSE {})
    \cup (IF vRes.validations = 2 /\ vRes.applied
          THEN { << vOrig, vRes.recovered >> } ELSE {})

\* C2: for every pair validate_fix_semantics accepts and every bracket
\* family, open and close counts equal in the original text are equal in
\* the patched text.
C2_BracketBalanceKept ==
    vpc = "done" =>
        \A p \in AcceptedPairs : \A b \in BracketFamilies :
            Balanced(p[1], b) => Balanced(p[2], b)

\* witness of C2: an accepted patch of a text with one balanced pair of
\* parentheses that changes the bracket counts
C2_Witness ==
    /\ vpc = "done"
    /\ vRes.first.ok
    /\ vFixed # << >>
    /\ count_brackets(vOrig).paren = << 1, 1 >>
    /\ count_brackets(vFixed) # count_brackets(vOrig)

\* the case of C7: the original imports p.m and not p, the patched text
\* imports p and no longer p.m
TruncationCase ==
    /\ vLang = "python"
    /\ Text("p.m") \in extract_python_imports(vOrig)
    /\ Text("p") \notin extract_python_imports(vOrig)
    /\ Text("p") \in extract_python_imports(vFixed)
    /\ Text("p.m") \notin extract_python_imports(vFixed)

\* C7 as claimed: in that case validation flags import truncation, one
\* recovery pass restores p.m, one re-validation runs, and the recovered
\* text is returned as applied.
C7_AsClaimed ==
    (vpc = "done" /\ TruncationCase) =>
        /\ vRes.first.reason = "truncated"
        /\ vRes.validations = 2
        /\ vRes.applied
        /\ vRes.code = vRes.recovered
        /\ Text("p.m") \in extract_python_imports(vRes.code)

\* none of the checks that validate_fix_semantics runs before the import
\* check rejects the patch
EarlierChecksPass ==
    /\ vFixed # << >> /\ vFixed # vOrig
    /\ LET d == line_count(vFixed) - line_count(vOrig)
       IN  2 * (IF d < 0 THEN -d ELSE d) <= line_count(vOrig)
    /\ Cardinality((identifiers(vFixed) \ identifiers(vOrig)) \ keywords) <= MaxAddedIds
    /\ \A b \in BracketFamilies : Balanced(vOrig, b) => Balanced(vFixed, b)
    /\ \A pat \in critical_patterns(vLang) :
           re_count(vFixed, pat) >= re_count(vOrig, pat)

\* C7 amended: in that case validation flags import truncation when no
\* earlier check rejects the patch; on the flag there is one recovery pass,
\* one re-validation if the pass changed the text, and the recovered text
\* is returned as applied if the re-validation accepts it, the original
\* text as not applied otherwise.
C7_TruncationRecovery ==
    vpc = "done" =>
        /\ (TruncationCase /\ EarlierChecksPass) => vRes.first.reason = "truncated"
        /\ vRes.first.reason = "truncated" =>
            LET pass == fix_python_import_truncated(vFixed, vRes.first.trunc,
                                                    vRes.first.full)
                accepts == \A v \in validate_fix_semantics(vOrig, pass, vLang) : v.ok
            IN  /\ vRes.validations = (IF pass # vFixed THEN 2 ELSE 1)
                /\ pass # vFixed =>
                     \/ contains(pass, Text("import ") \o vRes.first.full)
                     \/ contains(pass, Text("from ") \o vRes.first.full \o Text(" "))
                /\ vRes.applied <=> (pass # vFixed /\ accepts)
                /\ vRes.applied => vRes.code = pass
                /\ ~vRes.applied => vRes.code = vOrig

\* witness of C7: the truncation case, recovered: p.m is back in the text
\* returned as applied
C7_Witness ==
    /\ vpc = "done"
    /\ TruncationCase
    /\ vRes.first.reason = "truncated"
    /\ vRes.validations = 2
    /\ vRes.applied
    /\ vRes.code # vFixed
    /\ Text("p.m") \in extract_python_imports(vRes.code)
    /\ Text("p") \notin extract_python_imports(vRes.code)

(***************************************************************************)
(* The claims about the repair loop auto_fix.                              *)
(***************************************************************************)
\* C1 (as claimed): in the repair loop the text is replaced by a patch of
\* the oracle only if validate_fix_semantics accepts the patched text against
\* the text before the patch.
C1_OnlyValidatedPatches ==
    fPatch # NoPatch =>
        \E v \in validate_fix_semantics(fPatch.pre, fPatch.post, fLang) : v.ok

\* C3 (as claimed): a run whose first toolchain check is clean applies no
\* rule, asks no oracle, and writes the bytes of the input as output.
C3_CleanSourceUntouched ==
    (fpc = "done" /\ fFirstClean) => (~fRepaired /\ fOutput = fInput)

(***************************************************************************)
(* The claim about apply_replacements.                                     *)
(***************************************************************************)
\* the indexes at which old occurs in code
Occurrences(code, old) ==
    { i \in 1..(Len(code) - Len(old) + 1) : SubSeq(code, i, i + Len(old) - 1) = old }

\* C4 (as claimed): for one candidate whose old is a non-empty verbatim
\* substring of the text, the result is the text with exactly the first
\* occurrence of old replaced by new, every other character as it was.
C4_FirstOccurrenceReplaced ==
    (/\ apc = "done"
     /\ Len(aRepl) = 1
     /\ aRepl[1].old # << >>
     /\ Occurrences(aCode, aRepl[1].old) # {}) =>
        \E i \in Occurrences(aCode, aRepl[1].old) :
            /\ \A j \in Occurrences(aCode, aRepl[1].old) : i <= j
            /\ aOut = SubSeq(aCode, 1, i - 1) \o aRepl[1].new
                      \o SubSeq(aCode, i + Len(aRepl[1].old), Len(aCode))

(***************************************************************************)
(* The claim about auto_fix_multifile.                                     *)
(***************************************************************************)
\* C8 (as claimed): with dependency analysis on, when the run ends every file
\* that imports a file whose text changed has been checked by the toolchain
\* after that change, files that changed themselves and files of a cycle
\* included.
C8_ImportersVerifiedAgain ==
    (mpc = "done" /\ mAnalyze) => mStale = {}

(***************************************************************************)
(* The claims about the rule engine.                                       *)
(***************************************************************************)
\* the lines of a message that the rule pass looks at
GatedLines(error_msg) ==
    { l \in Range(str_split(error_msg, NL)) : contains(l, Text("error:")) }

\* every line the rule pass looks at says "reached end of file while
\* parsing", and there is such a line
EofDiagnostic(error_msg) ==
    /\ GatedLines(error_msg) # {}
    /\ GatedLines(error_msg) \subseteq { JavaEof(n) : n \in DiagLineNums }

\* the count of '{' of a text minus its count of '}'
OpenBraces(code) ==
    Cardinality({ i \in 1..Len(code) : code[i] = "{" })
    - Cardinality({ i \in 1..Len(code) : code[i] = "}" })

\* n lines that hold a closing brace each, as they are added after a text
ClosingBraces(n) == [i \in 1..(2 * n) |-> IF i % 2 = 1 THEN NL ELSE "}"]

\* C9: for the diagnostic "reached end of file while parsing" on a text with
\* n more '{' than '}', n > 0, try_local_fix returns the text followed by
\* exactly n lines with a closing brace; when n <= 0 the text is unchanged.
C9_EofBracesAppended ==
    (rpc = "done" /\ rLang = "java" /\ EofDiagnostic(rMsg)) =>
        IF OpenBraces(rCode) > 0
        THEN rRes.fixed /\ rRes.code = rCode \o ClosingBraces(OpenBraces(rCode))
        ELSE ~rRes.fixed /\ rRes.code = rCode

\* witness of C9: the diagnostic on a text with two more '{' than '}', two
\* closing braces added
C9_Witness ==
    /\ rpc = "done"
    /\ rLang = "java"
    /\ EofDiagnostic(rMsg)
    /\ OpenBraces(rCode) = 2
    /\ rRes.fixed
    /\ rRes.code = rCode \o Text("\n}\n}")

\* the messages that report the assignment in the condition at line k
ConditionAssignmentDiagnostics(k) ==
    { PyTraceback(k), PyCannotAssign(k), PyInvalidSyntax(k) }

\* C10 (as claimed): for a Python text whose line k is `if x = 5:` and a
\* diagnostic that reports the assignment in the condition at line k,
\* try_local_fix rewrites line k to `if x == 5:`, leaves every other line as
\* it was and reports a fix, so that the loop does not ask the oracle.
C10_ConditionAssignmentRewritten ==
    (rpc = "done" /\ rLang = "python") =>
        \A k \in DiagLineNums :
            (/\ k <= Len(str_split(rCode, NL))
             /\ str_split(rCode, NL)[k] = Text("if x = 5:")
             /\ rMsg \in ConditionAssignmentDiagnostics(k)) =>
                /\ rRes.fixed
                /\ rRes.code = str_join([str_split(rCode, NL) EXCEPT
                                            ![k] = Text("if x == 5:")], NL)

(***************************************************************************)
(* The claims about the turns of the repair loops.                         *)
(***************************************************************************)
\* how far a call of auto_fix is from its return: the statements before the
\* loops, the turns left in each loop, the write of the output
AutoFixRank ==
    CASE fpc = "read" -> MAX_ITERATIONS + MaxCompileIter + 6
      [] fpc = "phase1" -> MAX_ITERATIONS + MaxCompileIter + 5
      [] fpc = "phase2" -> MAX_ITERATIONS + MaxCompileIter + 4
      [] fpc = "phase2loop" -> MAX_ITERATIONS + 3 + (MaxCompileIter - compile_iter)
      [] fpc = "phase3" -> 2 + (MAX_ITERATIONS - iteration)
      [] fpc = "save" -> 1
      [] OTHER -> 0

\* how far a call of auto_fix_multifile is from its return: the files left,
\* the turns left for the file at hand, the files left to check again
MultifileRank ==
    LET n == Cardinality(Nodes(mGraph))
        perFile == MAX_ITERATIONS + 3
        left == Len(mOrder) - mIdx
    IN  CASE mpc = "start" -> (n + 1) * perFile + n + 3
          [] mpc = "open" -> left * perFile + MAX_ITERATIONS + 2 + n + 3
          [] mpc = "loop" -> left * perFile + 1 + (MAX_ITERATIONS - mIter) + n + 3
          [] mpc = "save" -> left * perFile + n + 3
          [] mpc = "summary" -> n + 2
          [] mpc = "recheck" -> 1 + Cardinality(mRecheck)
          [] OTHER -> 0

TurnOrdered(t, atHead) ==
    t # NoTurn =>
       /\ t.oracle => (~t.fixed /\ ~t.changed)
       /\ t.changed => (t.fixed /\ ~t.oracle /\ atHead)

ValidatorRejects(t) ==
    \E v \in validate_fix_semantics(vOrig, t, vLang) : ~v.ok

\* the recovery pass of the call made a text that the Validator accepts
RecoverySucceeds ==
    /\ vRes.first.reason = "truncated"
    /\ LET pass == fix_python_import_truncated(vFixed, vRes.first.trunc,
                                               vRes.first.full)
       IN  pass # vFixed /\ ~ValidatorRejects(pass)

\* C13: when validate_fix_semantics rejects the patched text and the recovery
\* of a truncated import does not succeed, safe_apply_fix returns the original
\* text unchanged with was_applied = False; the text it returns is never a
\* patched text the Validator rejects.
C13_RejectedPatchNotReturned ==
    vpc = "done" =>
       /\ (ValidatorRejects(vFixed) /\ ~RecoverySucceeds) =>
             (vRes.code = vOrig /\ ~vRes.applied)
       /\ vRes.applied => ~ValidatorRejects(vRes.code)
       /\ vRes.code # vOrig => ~ValidatorRejects(vRes.code)

\* a patch is rejected for a truncated import, the recovery pass makes a text
\* that is rejected too, and the original text is returned
C13_Witness ==
    /\ vpc = "done"
    /\ ValidatorRejects(vFixed) /\ vRes.first.reason = "truncated"
    /\ vRes.validations = 2 /\ ValidatorRejects(vRes.recovered)
    /\ vRes.code = vOrig /\ ~vRes.applied /\ vFixed # vOrig

\* abs(fixed_lines - original_lines) > original_lines * 0.5
LineCountOff(original_code, fixed_code) ==
    LET d == line_count(fixed_code) - line_count(original_code)
    IN  2 * (IF d < 0 THEN -d ELSE d) > line_count(original_code)

\* C14: validate_fix_semantics rejects every patched text whose number of
\* lines differs from the original's by more than half the original's number
\* of lines, the empty patched text included.
C14_LineCountGuard ==
    vpc = "done" => (LineCountOff(vOrig, vFixed) => ~vRes.first.ok)

\* C15: validate_fix_semantics rejects every patched text in which a critical
\* pattern of the language is found fewer times than in the original.
C15_CriticalDeclarationsKept ==
    vpc = "done" =>
       (critical_removed(vOrig, vFixed, vLang) => ~vRes.first.ok)

\* the module paths a text imports, as validate_import_paths collects them
ImportedPaths(code, lang) ==
    IF lang = "python" THEN extract_python_imports(code)
    ELSE IF lang = "java" THEN extract_java_imports(code)
    ELSE {}

\* short is long cut at a path separator
CutAtSeparator(long, short) ==
    startswith(long, short \o << "." >>) \/ startswith(long, short \o << "_" >>)

\* C16: truncation is reported only when a path imported in the original is
\* not imported in the patched text while a shorter path, the original one cut
\* at a separator, is; a patch that leaves the set of imported paths as it was
\* is never reported.
C16_TruncationOnlyWhenPathLost ==
    vpc = "done" =>
       LET orig_imports == ImportedPaths(vOrig, vLang)
           fixed_imports == ImportedPaths(vFixed, vLang)
       IN  /\ vRes.first.reason = "truncated" =>
                \E o \in orig_imports :
                   /\ o \notin fixed_imports
                   /\ \E f \in fixed_imports : CutAtSeparator(o, f)
           /\ orig_imports = fixed_imports => vRes.first.reason # "truncated"

\* the line matches a trigger of the table of rLang whose value is None
MatchesNoneTrigger(line) ==
    \E i \in DOMAIN LOCAL_FIX_RULES(rLang) :
        /\ LOCAL_FIX_RULES(rLang)[i].fix = "None"
        /\ search_parts(line, LOCAL_FIX_RULES(rLang)[i].parts)

\* C17: when every line of the message that the rule pass looks at matches a
\* trigger mapped to None, try_local_fix applies no rule of the table: the
\* text comes back unchanged and fixed is False.
C17_NoneTriggerStopsRules ==
    (rpc = "done" /\ ~contains(rMsg, Text("before '"))) =>
       LET looked == { i \in DOMAIN str_split(rMsg, NL) :
                         contains(str_split(rMsg, NL)[i], Text("error:")) }
       IN  (\A i \in looked : MatchesNoneTrigger(str_split(rMsg, NL)[i]))
              => (rRes.code = rCode /\ ~rRes.fixed)

\* C18: when a command sent to the container times out, run_in_container
\* returns a failure only after the container was set up again and the
\* command was sent again: never on the first sending.
C18_TimeoutRetried ==
    (spc = "done" /\ sTimedOut) => (sSetups > 0 /\ sAttempts > 1)

\* C19: whatever the oracle replies, the turn of the loop that calls
\* call_llm_for_fix and apply_replacements does not end by an exception.
C19_NoUncaughtException == opc # "raised"

\* call i of llm gives nothing call_llm_for_fix returns: it raises, or its
\* reply parses to nothing or to a false value
CallFails(i) ==
    \/ oReplies[i] = LlmRaises
    \/ ~Truthy(try_parse_json(extract_json(oReplies[i])))

C21_RaiseNotRetried ==
    \A i \in 1..max_retries :
        (opc # "idle" /\ oCalls >= i /\ oReplies[i] = LlmRaises) => oCalls = i

\* the places in the table of the rules that match the line, have a
\* transform, and whose transform changes the text
FiringRules(rules, err_line, code) ==
    { i \in 1..Len(rules) :
        /\ search_parts(err_line, rules[i].parts)
        /\ rules[i].fix # "None"
        /\ apply_rule(rules[i].fix, err_line, code) # code }

\* the text after one line of the message, when the first rule in
\* registration order whose transform changes the text is the only one applied
FirstRuleWins(rules, err_line, code) ==
    IF ~contains(err_line, Text("error:")) \/ FiringRules(rules, err_line, code) = { }
    THEN code
    ELSE apply_rule(rules[Min(FiringRules(rules, err_line, code))].fix, err_line, code)

RECURSIVE OneRulePerLine(_, _, _)
OneRulePerLine(rules, error_lines, code) ==
    IF error_lines = << >> THEN code
    ELSE OneRulePerLine(rules, Tail(error_lines),
                        FirstRuleWins(rules, error_lines[1], code))

\* layer 4 of try_local_fix returns before the pass over the table
BeforeLayerReturns ==
    /\ rLang \in { "cpp", "c", "java" }
    /\ contains(rMsg, Text("before '"))
    /\ fix_semicolon_before(rCode, rMsg) # rCode

\* C22: in the pass of try_local_fix over the rule table, for each line of
\* the message the first trigger in registration order whose transform
\* changes the text is applied, and no other for that line.
C22_FirstChangingRulePerLine ==
    (rpc = "done" /\ ~BeforeLayerReturns)
        => rRes.code = OneRulePerLine(LOCAL_FIX_RULES(rLang), str_split(rMsg, NL), rCode)

\* a message with a line on which two rules would each change the text
C22_Witness ==
    /\ rpc = "done" /\ ~BeforeLayerReturns
    /\ rRes.code # rCode
    /\ \E i \in 1..Len(str_split(rMsg, NL)) :
          /\ contains(str_split(rMsg, NL)[i], Text("error:"))
          /\ Cardinality(FiringRules(LOCAL_FIX_RULES(rLang),
                                     str_split(rMsg, NL)[i], rCode)) >= 2

\* the hint names one line of the text and columns of that line (the column
\* after the last character is where a text is added at the end)
NamesSpan(lines, f) ==
    /\ f.line_start = f.line_end
    /\ f.line_start \in 1..Len(lines)
    /\ f.col_start \in 1..(Len(lines[f.line_start]) + 1)
    /\ f.col_end \in 1..(Len(lines[f.line_start]) + 1)

\* the hints of the list that name a span
SpanHints(lines, fixits) == { i \in 1..Len(fixits) : NamesSpan(lines, fixits[i]) }

\* the spans named are well formed, start at different places and do not
\* overlap
DisjointSpans(lines, fixits) ==
    /\ \A i \in SpanHints(lines, fixits) : fixits[i].col_start <= fixits[i].col_end
    /\ \A i, j \in SpanHints(lines, fixits) :
          (i # j /\ fixits[i].line_start = fixits[j].line_start)
             => /\ fixits[i].col_start # fixits[j].col_start
                /\ \/ fixits[i].col_end <= fixits[j].col_start
                   \/ fixits[j].col_end <= fixits[i].col_start

\* the character at column p, nothing at the column after the last one
CharAt(line, p) == IF p <= Len(line) THEN << line[p] >> ELSE << >>

\* the line from column p on, each span of hs replaced by what its hint gives
RECURSIVE ReplaceSpans(_, _, _)
ReplaceSpans(line, hs, p) ==
    IF p > Len(line) + 1 THEN << >>
    ELSE IF \E f \in hs : f.col_start = p
    THEN With(CHOOSE f \in hs : f.col_start = p, LAMBDA f :
           f.replacement
           \o IF f.col_end > p THEN ReplaceSpans(line, hs \ { f }, f.col_end)
              ELSE CharAt(line, p) \o ReplaceSpans(line, hs \ { f }, p + 1))
    ELSE CharAt(line, p) \o ReplaceSpans(line, hs, p + 1)

\* the text in which each hint that names a span has replaced that span of
\* the original text, and nothing else has changed
SpansReplaced(code, fixits) ==
    With(str_split(code, NL), LAMBDA lines :
      str_join([n \in 1..Len(lines) |->
                  ReplaceSpans(lines[n],
                               { fixits[i] : i \in { j \in SpanHints(lines, fixits) :
                                                       fixits[j].line_start = n } },
                               1)],
               NL))

\* C23: for hints whose spans are pairwise disjoint, apply_fixits replaces
\* each span named, as it lies in the original text; a hint whose lines
\* differ or whose columns lie outside the line changes nothing.
C23_FixitsReplaceTheirSpans ==
    (hpc = "done" /\ DisjointSpans(str_split(hCode, NL), hFixits))
        => hRes.code = SpansReplaced(hCode, hFixits)

\* C23 for lists in which every hint names a span
C23_SpanHintsOnly ==
    (hpc = "done" /\ DisjointSpans(str_split(hCode, NL), hFixits)
     /\ SpanHints(str_split(hCode, NL), hFixits) = 1..Len(hFixits))
        => hRes.code = SpansReplaced(hCode, hFixits)

\* a turn of Phase 3 of auto_fix, or of the loop of a file of
\* auto_fix_multifile, in which no line number is found in the message and
\* try_local_fix leaves the text as it is, ends the loop, without a call of
\* the oracle and with the text as it was
UnlocatedTurnEnds ==
    /\ (fpc = "phase3" /\ fTurn' # NoTurn /\ ~fTurn'.located /\ ~fTurn'.changed)
          => (fpc' = "save" /\ ~fTurn'.oracle /\ fCode' = fCode)
    /\ (mpc = "loop" /\ mTurn' # NoTurn /\ ~mTurn'.located /\ ~mTurn'.changed)
          => (mpc' = "save" /\ ~mTurn'.oracle /\ mCode' = mCode)

OldText(r) ==
    With(re_match_at(r.old, 1, LineNumberPrefix, << >>), LAMBDA m :
      IF m = << >> THEN r.old ELSE SubSeq(r.old, m[Len(m)], Len(r.old)))

\* the line of code the comment-stripped tier replaces for the candidate, 0
\* when the candidate is not applied through that tier
NoCommentLine(code, r) ==
    IF /\ OldText(r) # << >>
       /\ ~contains(code, OldText(r))
       /\ bare(OldText(r)) # << >>
       /\ contains(code, bare(OldText(r)))
    THEN FirstOf({ i \in 1..Len(str_split(code, NL)) :
                     bare(str_split(code, NL)[i]) = bare(OldText(r)) })
    ELSE 0

\* the white space a line starts with
Indentation(line) == SubSeq(line, 1, Len(line) - Len(lstrip(line)))

\* the comment a line ends with, from its // on; nothing when it has none
InlineComment(line) == lstrip(SubSeq(line, Len(no_comment(line)) + 1, Len(line)))

\* C25: when a candidate is applied through the comment-stripped tier, the
\* line it matches keeps its indentation and the comment it ends with, and
\* no other line changes.
C25_NoCommentTierKeepsComment ==
    (apc = "done" /\ Len(aRepl) = 1 /\ NoCommentLine(aCode, aRepl[1]) > 0)
        => With(NoCommentLine(aCode, aRepl[1]), LAMBDA i :
           With(str_split(aCode, NL), LAMBDA lines :
           With(str_split(aOut, NL), LAMBDA out :
             /\ Len(out) = Len(lines)
             /\ \A j \in 1..Len(lines) : j # i => out[j] = lines[j]
             /\ startswith(out[i], Indentation(lines[i]))
             /\ endswith(out[i], InlineComment(lines[i])))))

\* C25 without the comment, for lines indented by spaces: the line keeps its
\* indentation and no other line changes
C25_NoCommentTierKeepsIndent ==
    (apc = "done" /\ Len(aRepl) = 1 /\ NoCommentLine(aCode, aRepl[1]) > 0)
        => With(NoCommentLine(aCode, aRepl[1]), LAMBDA i :
           With(str_split(aCode, NL), LAMBDA lines :
           With(str_split(aOut, NL), LAMBDA out :
             /\ Len(out) = Len(lines)
             /\ \A j \in 1..Len(lines) : j # i => out[j] = lines[j]
             /\ startswith(out[i], Indentation(lines[i])))))

\* the exact tier finds old in the text
ExactMatches(code, r) == OldText(r) # << >> /\ contains(code, OldText(r))

\* the comment-stripped tier finds a line whose code is old without its
\* comment
NoCommentMatches(code, r) ==
    /\ bare(OldText(r)) # << >>
    /\ \E i \in 1..Len(str_split(code, NL)) :
          bare(str_split(code, NL)[i]) = bare(OldText(r))

\* old as the fuzzy tier compares it
NormalizedOld(r) ==
    IF bare(OldText(r)) # << >> THEN normalize_ws(bare(OldText(r)))
    ELSE normalize_ws(OldText(r))

\* the fuzzy tier finds a line that holds old up to white space, to which
\* the ';' or the ')' that new has and old has not can be added
FuzzyMatches(code, r) ==
    /\ NormalizedOld(r) # << >>
    /\ \E i \in 1..Len(str_split(code, NL)) :
          /\ contains(normalize_ws(no_comment(str_split(code, NL)[i])), NormalizedOld(r))
          /\ \/ /\ ";" \in Range(r.new) /\ ";" \notin Range(OldText(r))
                /\ ~endswith(rstrip(str_split(code, NL)[i]), << ";" >>)
             \/ /\ ~(";" \in Range(r.new) /\ ";" \notin Range(OldText(r)))
                /\ ")" \in Range(r.new) /\ ")" \notin Range(OldText(r))

\* C26: apply_replacements leaves the text as it is for a candidate only
\* when the three tiers were tried in order and none matched: the exact
\* substring, the comment-stripped line, the fuzzy line.
C26_UnappliedAfterThreeTiers ==
    (apc = "done" /\ Len(aRepl) = 1 /\ OldText(aRepl[1]) # << >> /\ aOut = aCode)
        => /\ ~ExactMatches(aCode, aRepl[1])
           /\ ~NoCommentMatches(aCode, aRepl[1])
           /\ ~FuzzyMatches(aCode, aRepl[1])

\* C26 for the candidates that do not enter the comment-stripped tier
C26_WithoutNoCommentTier ==
    (apc = "done" /\ Len(aRepl) = 1 /\ OldText(aRepl[1]) # << >> /\ aOut = aCode
     /\ ~contains(aCode, bare(OldText(aRepl[1]))))
        => /\ ~ExactMatches(aCode, aRepl[1])
           /\ ~NoCommentMatches(aCode, aRepl[1])
           /\ ~FuzzyMatches(aCode, aRepl[1])

\* the nodes a selection step of topological_sort chooses from: the nodes
\* not yet ordered without a dependency not yet ordered, or every node not
\* yet ordered when there is none
Eligible(g, v) ==
    IF \E n \in Nodes(g) : n \notin v /\ g[n] \subseteq v
    THEN { n \in Nodes(g) : n \notin v /\ g[n] \subseteq v }
    ELSE { n \in Nodes(g) : n \notin v }

\* the nodes not yet ordered that depend on n
RemainingInDegree(g, v, n) == Cardinality({ m \in Nodes(g) : m \notin v /\ n \in g[m] })

\* the node a step appends to result is eligible and no eligible node has
\* more dependents not yet ordered
GreatestRemainingChosen ==
    (tpc = "loop" /\ Len(result') = Len(result) + 1)
        => /\ result'[Len(result')] \in Eligible(graph, visited)
           /\ \A m \in Eligible(graph, visited) :
                 RemainingInDegree(graph, visited, m)
                    <= RemainingInDegree(graph, visited, result'[Len(result')])

\* C27: at every selection step of topological_sort the node chosen has the
\* greatest number of dependents not yet ordered among the eligible nodes.
C27_GreatestRemainingInDegree == [][GreatestRemainingChosen]_vars

\* C27 for graphs without a cycle
C27_AcyclicGraphs == [][Acyclic(graph) => GreatestRemainingChosen]_vars

\* a step of Phase 3 with iterations left that is not the successful run is
\* a turn in which the toolchain reports a failure: try_local_fix is run on
\* the message
FailureMeetsRules ==
    (fpc = "phase3" /\ iteration < MAX_ITERATIONS /\ ~success'
     /\ <<fpc, iteration>>' # <<fpc, iteration>>)
        => fTurn' # NoTurn

\* C28: whenever a compilation or a run of Phase 3 of auto_fix fails and
\* iterations remain, the rule engine is tried on the message before the
\* session ends.
C28_RunPhaseFailureIsRepaired == [][FailureMeetsRules]_vars

\* C28 for the languages without a compile step
C28_WithoutCompileStep == [][~has_compile_cmd(fLang) => FailureMeetsRules]_vars

\* the number of the line extract_error_context locates
LocatedLine == extract_error_context(pCode, pMsg, pLang).line_num

\* the located line is one of the lines of the context
InContextWindow ==
    /\ LocatedLine > extract_error_context(pCode, pMsg, pLang).start
    /\ LocatedLine <= extract_error_context(pCode, pMsg, pLang).end

\* C29: the prompt of call_llm_for_fix holds the text of the located line,
\* as it is in the source, whenever that line is in the context window.
C29_PromptHoldsLocatedLine ==
    (ppc = "asked" /\ InContextWindow)
        => contains(pPrompt, str_split(pCode, NL)[LocatedLine])

\* a prompt for a Java text whose located line is in the window and is not
\* a line of the message
C29_Witness ==
    /\ ppc = "asked" /\ InContextWindow
    /\ str_split(pCode, NL)[LocatedLine] # << >>
    /\ ~contains(pMsg, str_split(pCode, NL)[LocatedLine])

\* for every context extract_error_context gives, no line of it starts with
\* the number and a colon: error_line_code is None and the place of the
\* prompt for the code of the line reads "unknown"
ErrorLineCodeUnknown ==
    ppc = "asked"
        => error_line_code(context(pCode, pMsg, pLang), LocatedLine) = NoLineCode

\* C30: the table of the modules of the project a session gets from
\* scan_project_modules is a scan of the directory as it is in that session,
\* never the table scanned in an earlier session.
C30_TableRebuiltEachSession ==
    kpc = "looked" => \E modules \in scan_results(kDisk) : kModules = { modules }

\* C30 for the first session of a process
C30_FirstSession ==
    (kpc = "looked" /\ kSessions = 1) =>
        \E modules \in scan_results(kDisk) : kModules = { modules }

\* sum(fix_methods.values())
RECURSIVE SumOfMethods(_)
SumOfMethods(fix_methods) ==
    IF fix_methods = << >> THEN 0
    ELSE fix_methods[1][2] + SumOfMethods(Tail(fix_methods))

\* the counts of STATS agree
CountsAgree ==
    qFunc = "auto_fix_with_stats" =>
        /\ qStats.local_fixes + qStats.llm_calls = Len(qStats.fixed_errors)
        /\ qStats.local_fixes + qStats.llm_calls = SumOfMethods(qStats.fix_methods)
        /\ qStats.local_fixes + qStats.llm_calls <= qStats.iterations

\* a step adds one to local_fixes or to llm_calls, or leaves both
OneCountPerTurn ==
    qFunc = "auto_fix_with_stats" =>
        \/ qStats'.local_fixes = qStats.local_fixes /\ qStats'.llm_calls = qStats.llm_calls
        \/ qStats'.local_fixes = qStats.local_fixes + 1 /\ qStats'.llm_calls = qStats.llm_calls
        \/ qStats'.local_fixes = qStats.local_fixes /\ qStats'.llm_calls = qStats.llm_calls + 1

\* C31: in auto_fix_with_stats, after every turn of the loop local_fixes +
\* llm_calls is the number of the fixed errors recorded, is the sum of the
\* counts per method and is at most the number of turns begun; a turn adds
\* one to at most one of the two counts.
C31_CountsOfStatsAgree == [] CountsAgree /\ [][OneCountPerTurn]_vars

\* witness of C31: after three turns one repair of the rule engine and one of
\* the oracle are counted
C31_Witness ==
    /\ qFunc = "auto_fix_with_stats"
    /\ qStats.iterations = 3
    /\ qStats.local_fixes = 1
    /\ qStats.llm_calls = 1
    /\ Len(qStats.fixed_errors) = 2

\* a turn of the loop ends the session or changes the text of a file
TurnEndsOrChanges == qpc = "loop" => (qpc' = "save" \/ qFiles' # qFiles)

\* C34: in auto_fix_project and auto_fix_with_stats every turn of the loop
\* ends the session or changes the text kept for some file of the project:
\* no turn leaves the state of the turn before as it was.
C34_EveryTurnEndsOrChanges == [][TurnEndsOrChanges]_vars

\* C34 for the turns other than those whose first target is not a file of
\* the project
C34_TurnsThatDoNotSkip == [][(~ProjectSkip) => TurnEndsOrChanges]_vars

\* what a step of auto_fix does to the flag and to the text: the flag is
\* raised only by a turn of Phase 3 whose run succeeded, on the text that was
\* copied to the container for that run; from then on no step changes the
\* text, and the step that writes the output file writes that text
SuccessKeepsText ==
    /\ (~success /\ success') => (Phase3Success /\ fCode' = fCode)
    /\ success => fCode' = fCode
    /\ (success /\ fpc = "save") => (fpc' = "done" /\ fOutput' = write_text(fCode))

\* C33: auto_fix returns True only if the text written to the output file is
\* the text whose run succeeded last: no repair step changes the text
\* between that run and the write.
C33_SuccessWritesTheTextThatRan == [][SuccessKeepsText]_vars

\* witness of C33: a repaired text ran without error and was written
C33_Witness ==
    /\ fpc = "done"
    /\ success
    /\ fCode # read_text(fInput)
    /\ fOutput = write_text(fCode)

\* C32: for every language and every message, when try_local_fix returns the
\* flag False the text it returns is the text it was called with.
C32_FlagFalseKeepsText ==
    (ypc = "done" /\ ~yRet.fixed) => yRet.code = yCode

\* witness of C32: a call for C whose message holds `did you mean`, so that
\* the second layer was tried, returned the text of the call and the flag
\* False
C32_Witness ==
    /\ ypc = "done"
    /\ yLang = "c"
    /\ contains(lower(yMsg), Text("did you mean"))
    /\ ~yRet.fixed
    /\ yRet.code = yCode
=============================================================================
